---- MODULE Spec2Model ----
(***************************************************************************)
(* Model of the appkit extension registry (appkit/extensionmanager.py)     *)
(* with the service layer of appkit/application/services.py on top of it.  *)
(*                                                                         *)
(* The manager modelled is an application built as                         *)
(*   class App(services.ApplicationMixin, BaseApplication)                 *)
(* so register_extension_class and get_extension are the mixin's           *)
(* overrides, which call the ExtensionManager methods through super().     *)
(***************************************************************************)
EXTENDS Integers, Sequences, FiniteSets, TLC

VARIABLES registry, services, nextId, got, last, gen, cli, ns, nsLast,
          signals, sigLast, store, validators, storeLast,
          clock, checkpoints, cronLast

\* the state of an application: its registry, services and command line
managerVars == <<registry, services, nextId, got, last, gen, cli>>

\* the state of a Signaler (appkit/signaler.py)
signalerVars == <<signals, sigLast>>

\* the state of a Store (appkit/store.py)
storeVars == <<store, validators, storeLast>>

\* the state of a CronManager (appkit/application/cron.py)
cronVars == <<clock, checkpoints, cronLast>>

\* the state of the objects that are no part of the application
utilVars == <<signalerVars, storeVars, cronVars>>

\* the state of the data containers (appkit/namespace.py) and of the other
\* objects an application's calls leave alone
dataVars == <<ns, nsLast, utilVars>>

vars == <<registry, services, nextId, got, last, gen, cli, ns, nsLast,
          signals, sigLast, store, validators, storeLast,
          clock, checkpoints, cronLast>>

(***************************************************************************)
(* Bounds of the model.                                                    *)
(***************************************************************************)
\* instances that may be constructed in one behaviour
MaxInst == 3
\* results of get_extension / get_service calls that are remembered
MaxGot == 2

(***************************************************************************)
(* The universe of Python classes handed to the manager.                   *)
(*   Bases(t)   the class statement's base list, in order                  *)
(*   OwnName(t) the __extension_name__ set in the class body ("" = none)   *)
(***************************************************************************)
Types == {"Extension", "Service", "TypeA", "FooType", "str",
          "ExtA", "FooSvc", "BadSvc", "SvcA"}

Bases(t) ==
  CASE t = "Extension" -> <<>>
    [] t = "str"       -> <<>>
    [] t = "Service"   -> <<"Extension">>
    [] t = "TypeA"     -> <<"Extension">>
    [] t = "FooType"   -> <<"TypeA">>
    [] t = "ExtA"      -> <<"TypeA">>
    [] t = "FooSvc"    -> <<"Service">>
    [] t = "BadSvc"    -> <<"Service">>
    [] t = "SvcA"      -> <<"Service", "TypeA">>
    [] t = "Command"   -> <<"Extension">>
    [] t \in {"CmdA", "CmdB", "CronCommand"} -> <<"Command">>
    [] t = "Task"      -> <<"Extension">>
    [] t \in {"TaskA", "TaskFail", "TaskCrash", "TaskReq", "TaskNoInterval"}
                       -> <<"Task">>

OwnName(t) ==
  CASE t \in {"ExtA", "FooSvc", "SvcA"} -> "x"
    [] t = "BadSvc" -> "t"
    [] t = "CmdA" -> "a"
    [] t = "CmdB" -> "b"
    [] t = "CronCommand" -> "cron"
    [] t = "TaskA" -> "a"
    [] t = "TaskFail" -> "fail"
    [] t = "TaskCrash" -> "crash"
    [] t = "TaskReq" -> "req"
    [] t = "TaskNoInterval" -> "nointerval"
    [] OTHER -> ""

Names == {"x", "t"}

\* classes whose __init__ raises
Raising == {"BadSvc"}

SERVICE_EXTENSION_POINT == "Service"

\* the command classes handed to an application with a CommandManager
CommandTypes == {"CmdA", "CmdB", "CronCommand"}

COMMAND_EXTENSION_POINT == "Command"

\* the task classes handed to an application with a CronManager
TaskTypes == {"TaskA", "TaskFail", "TaskCrash", "TaskReq", "TaskNoInterval"}

TASK_EXTENSION_POINT == "Task"

(***************************************************************************)
(* Python's class relations.                                               *)
(***************************************************************************)
RECURSIVE Ancestors(_)
Ancestors(t) ==
  {t} \cup UNION {Ancestors(Bases(t)[i]) : i \in DOMAIN Bases(t)}

AncestorsOf ==
  [t \in Types \cup CommandTypes \cup {COMMAND_EXTENSION_POINT}
          \cup TaskTypes \cup {TASK_EXTENSION_POINT} |-> Ancestors(t)]

\* issubclass(a, b)
IsSubclass(a, b) == b \in AncestorsOf[a]

\* getattr(t, '__extension_name__', ""): the class body's value, else the
\* first base (in order) that has one
RECURSIVE InheritedName(_)
InheritedName(t) ==
  IF OwnName(t) # "" THEN OwnName(t)
  ELSE LET named == {i \in DOMAIN Bases(t) : InheritedName(Bases(t)[i]) # ""}
       IN  IF named = {} THEN ""
           ELSE InheritedName(Bases(t)[CHOOSE i \in named :
                                         \A j \in named : i <= j])

ExtensionNameOf ==
  [t \in Types \cup CommandTypes \cup {COMMAND_EXTENSION_POINT}
          \cup TaskTypes \cup {TASK_EXTENSION_POINT} |-> InheritedName(t)]

\* cls.__extension_name__
ExtensionName(t) == ExtensionNameOf[t]

\* hasattr(t, '__extension_name__')
HasExtensionName(t) == ExtensionName(t) # ""

(***************************************************************************)
(* self._registry: an insertion-ordered dict point -> (insertion-ordered   *)
(* dict name -> class), kept as sequences of entries.                      *)
(***************************************************************************)
RegisteredPoints(reg) == {reg[i].point : i \in DOMAIN reg}

\* self._registry[point]
TableOf(reg, p) == reg[CHOOSE i \in DOMAIN reg : reg[i].point = p].exts

\* name in self._registry[point]
NameIn(tab, n) == \E i \in DOMAIN tab : tab[i].name = n

\* self._registry[point][name]
ClassOf(tab, n) == tab[CHOOSE i \in DOMAIN tab : tab[i].name = n].cls

\* list(self._registry[point]): the keys in insertion order
NamesOf(tab) == [i \in DOMAIN tab |-> tab[i].name]


\* d[name] = cls on an insertion-ordered dict: an existing key keeps its
\* position and gets the new value, a new key goes last
DictSet(tab, n, c) ==
  IF NameIn(tab, n)
  THEN [i \in DOMAIN tab |->
          IF tab[i].name = n THEN [name |-> n, cls |-> c] ELSE tab[i]]
  ELSE Append(tab, [name |-> n, cls |-> c])

(***************************************************************************)
(* Outcomes.  An error is named by the exception type the code raises and  *)
(* the raise site's message.                                               *)
(***************************************************************************)
NoError == "ok"
ErrNotExtension == "TypeError: not a valid extension (must be a subclass of Extension)"
ErrExtensionAsPoint == "TypeError: attempt to register an extension as extension point"
ErrMissingName == "TypeError: not a valid extension (must define __extension_name__)"
ErrAlreadyRegistered == "ExtensionManagerError: extension point already registered"
ErrHierarchy == "ExtensionManagerError: extension point is a subclass of another (or viceversa)"
ErrNoMatch == "ExtensionManagerError: class doesn't match any extension point"
ErrCollision == "ExtensionManagerError: name already registered by other"
ErrInvalidPoint == "TypeError: invalid extension_point"
ErrKey == "KeyError"
\* class ExtensionNotFoundError(ExtensionManagerError)
ErrExtensionNotFound == "ExtensionNotFoundError"
ErrCtor == "exception raised by the extension's __init__"
ErrCtorArgs == "TypeError: __init__ arguments"
ErrPluginNotLoaded == "PluginNotLoadedError"
ErrPluginWithoutExtensions == "PluginWithoutExtensionsError"
ErrImportOther == "SyntaxError"
ErrAssertion == "AssertionError"
ErrStopIteration == "StopIteration"
ErrDictChanged == "RuntimeError: dictionary changed size during iteration"

\* constructor arguments: positional ones and keyword ones
SelfArg == [args |-> <<"self">>, kwargs |-> {}]
CallArgs == {[args |-> <<>>, kwargs |-> {}],
             [args |-> <<"1">>, kwargs |-> {}],
             [args |-> <<"1">>, kwargs |-> {<<"foo", "bar">>}]}

NoInst == [id |-> 0, cls |-> "", call |-> [args |-> <<>>, kwargs |-> {}]]

(***************************************************************************)
(* ExtensionManager.register_extension_point                               *)
(***************************************************************************)
\* check_subclass looking one way only
CheckSubclass_DescendantOnly(a, b) == IsSubclass(a, b)

CheckSubclass_AncestorOnly(a, b) == IsSubclass(b, a)

CheckSubclass(a, b) == IsSubclass(a, b) \/ IsSubclass(b, a)

\* the checks of register_extension_point without the one for duplicates
RegisterExtensionPointError_NoDuplicateCheck(reg, t) ==
  IF ~IsSubclass(t, "Extension") THEN ErrNotExtension
  ELSE IF HasExtensionName(t) THEN ErrExtensionAsPoint
  ELSE IF \E i \in DOMAIN reg : CheckSubclass(t, reg[i].point)
       THEN ErrHierarchy
  ELSE NoError

\* the checks of register_extension_point without the one for a name
RegisterExtensionPointError_NoNameCheck(reg, t) ==
  IF ~IsSubclass(t, "Extension") THEN ErrNotExtension
  ELSE IF t \in RegisteredPoints(reg) THEN ErrAlreadyRegistered
  ELSE IF \E i \in DOMAIN reg : CheckSubclass(t, reg[i].point)
       THEN ErrHierarchy
  ELSE NoError

RegisterExtensionPointError(reg, t) ==
  IF ~IsSubclass(t, "Extension") THEN ErrNotExtension
  ELSE IF HasExtensionName(t) THEN ErrExtensionAsPoint
  ELSE IF t \in RegisteredPoints(reg) THEN ErrAlreadyRegistered
  ELSE IF \E i \in DOMAIN reg : CheckSubclass(t, reg[i].point)
       THEN ErrHierarchy
  ELSE NoError

\* the new point's table filled with the registered classes that are
\* subclasses of it
AddPoint_Backfill(reg, t) ==
  LET old == [i \in DOMAIN reg |-> SelectSeq(reg[i].exts,
                                    LAMBDA e : IsSubclass(e.cls, t))]
      first == {i \in DOMAIN reg : old[i] # <<>>}
  IN  Append(reg, [point |-> t,
                   exts |-> IF first = {} THEN <<>>
                            ELSE old[CHOOSE i \in first : \A j \in first : i <= j]])

\* self._registry = {extension_point: {}}
AddPoint_Fresh(reg, t) == <<[point |-> t, exts |-> <<>>]>>

\* self._registry[extension_point] = {}
AddPoint(reg, t) == Append(reg, [point |-> t, exts |-> <<>>])

\* register_extension_point creating the table ahead of the hierarchy loop
RegisterExtensionPoint_InsertBeforeHierarchyCheck(reg, t) ==
  LET e == RegisterExtensionPointError(reg, t)
  IN  [err |-> e,
       registry |-> IF e \in {NoError, ErrHierarchy} THEN AddPoint(reg, t)
                    ELSE reg]

RegisterExtensionPoint(reg, t) ==
  LET e == RegisterExtensionPointError(reg, t)
  IN  [err |-> e,
       registry |-> IF e = NoError THEN AddPoint(reg, t) ELSE reg]

(***************************************************************************)
(* ExtensionManager.register_extension_class                               *)
(***************************************************************************)
\* the registered points the class is a subclass of, in registry order
MatchingPoints(reg, c) ==
  LET hit == SelectSeq(reg, LAMBDA e : IsSubclass(c, e.point))
  IN  [i \in DOMAIN hit |-> hit[i].point]

\* the name-collision loop running over every registered point
Collides_AnyPoint(reg, pts, n) ==
  \E i \in DOMAIN reg : NameIn(reg[i].exts, n)

\* the name-collision loop over the matching points
Collides(reg, pts, n) ==
  \E i \in DOMAIN pts : NameIn(TableOf(reg, pts[i]), n)

\* the final loop stopping after the first matching point
InsertAll_FirstOnly(reg, pts, n, c) ==
  [i \in DOMAIN reg |->
     IF pts # <<>> /\ pts[1] = reg[i].point
     THEN [reg[i] EXCEPT !.exts = DictSet(@, n, c)]
     ELSE reg[i]]

\* the final loop running over the whole registry
InsertAll_Everywhere(reg, pts, n, c) ==
  [i \in DOMAIN reg |-> [reg[i] EXCEPT !.exts = DictSet(@, n, c)]]

\* the final loop: self._registry[ext_point][ext_name] = extension_cls
InsertAll(reg, pts, n, c) ==
  [i \in DOMAIN reg |->
     IF \E j \in DOMAIN pts : pts[j] = reg[i].point
     THEN [reg[i] EXCEPT !.exts = DictSet(@, n, c)]
     ELSE reg[i]]

\* register_extension_class inserting in the loop that checks for collisions
BaseRegisterExtensionClass_CheckWhileInserting(reg, c) ==
  IF ~IsSubclass(c, "Extension")
  THEN [err |-> ErrNotExtension, registry |-> reg]
  ELSE IF ~HasExtensionName(c)
  THEN [err |-> ErrMissingName, registry |-> reg]
  ELSE LET pts == MatchingPoints(reg, c)
           n   == ExtensionName(c)
           col == {i \in DOMAIN pts : NameIn(TableOf(reg, pts[i]), n)}
       IN  IF pts = <<>> THEN [err |-> ErrNoMatch, registry |-> reg]
           ELSE IF col # {}
           THEN [err |-> ErrCollision,
                 registry |-> InsertAll(reg,
                    SubSeq(pts, 1, (CHOOSE i \in col : \A j \in col : i <= j) - 1),
                    n, c)]
           ELSE [err |-> NoError, registry |-> InsertAll(reg, pts, n, c)]

\* register_extension_class without the "if not extension_points" check
BaseRegisterExtensionClass_NoMatchCheck(reg, c) ==
  IF ~IsSubclass(c, "Extension")
  THEN [err |-> ErrNotExtension, registry |-> reg]
  ELSE IF ~HasExtensionName(c)
  THEN [err |-> ErrMissingName, registry |-> reg]
  ELSE LET pts == MatchingPoints(reg, c)
           n   == ExtensionName(c)
       IN  IF Collides(reg, pts, n)
           THEN [err |-> ErrCollision, registry |-> reg]
           ELSE [err |-> NoError, registry |-> InsertAll(reg, pts, n, c)]

\* register_extension_class without the check for __extension_name__
BaseRegisterExtensionClass_NoNameCheck(reg, c) ==
  IF ~IsSubclass(c, "Extension")
  THEN [err |-> ErrNotExtension, registry |-> reg]
  ELSE LET pts == MatchingPoints(reg, c)
           n   == ExtensionName(c)
       IN  IF pts = <<>> THEN [err |-> ErrNoMatch, registry |-> reg]
           ELSE IF Collides(reg, pts, n)
           THEN [err |-> ErrCollision, registry |-> reg]
           ELSE [err |-> NoError, registry |-> InsertAll(reg, pts, n, c)]

\* register_extension_class without the loop that looks for name collisions
BaseRegisterExtensionClass_NoCollisionCheck(reg, c) ==
  IF ~IsSubclass(c, "Extension")
  THEN [err |-> ErrNotExtension, registry |-> reg]
  ELSE IF ~HasExtensionName(c)
  THEN [err |-> ErrMissingName, registry |-> reg]
  ELSE LET pts == MatchingPoints(reg, c)
           n   == ExtensionName(c)
       IN  IF pts = <<>> THEN [err |-> ErrNoMatch, registry |-> reg]
           ELSE [err |-> NoError, registry |-> InsertAll(reg, pts, n, c)]

BaseRegisterExtensionClass(reg, c) ==
  IF ~IsSubclass(c, "Extension")
  THEN [err |-> ErrNotExtension, registry |-> reg]
  ELSE IF ~HasExtensionName(c)
  THEN [err |-> ErrMissingName, registry |-> reg]
  ELSE LET pts == MatchingPoints(reg, c)
           n   == ExtensionName(c)
       IN  IF pts = <<>> THEN [err |-> ErrNoMatch, registry |-> reg]
           ELSE IF Collides(reg, pts, n)
           THEN [err |-> ErrCollision, registry |-> reg]
           ELSE [err |-> NoError, registry |-> InsertAll(reg, pts, n, c)]


(***************************************************************************)
(* Construction of an extension: the call cls(args..., kwargs...).         *)
(* Classes below Service inherit Service.__init__(self, app); the other    *)
(* classes accept any arguments.  The __init__ of a class in Raising       *)
(* raises once it runs.                                                    *)
(***************************************************************************)
CtorAccepts(c, call) ==
  IsSubclass(c, "Service") => (Len(call.args) = 1 /\ call.kwargs = {})

Construct(c, call, nid) ==
  IF ~CtorAccepts(c, call) THEN [err |-> ErrCtorArgs, inst |-> NoInst]
  ELSE IF c \in Raising THEN [err |-> ErrCtor, inst |-> NoInst]
  ELSE [err |-> NoError, inst |-> [id |-> nid, cls |-> c, call |-> call]]

\* a constructor invocation, as it is logged in last.built
CtorCall(c, call, k) == [cls |-> c, call |-> call, ok |-> k.err = NoError]

(***************************************************************************)
(* services.ApplicationMixin.register_extension_class                      *)
(*   reg, svc, nid  the manager's state   c  the class                     *)
(***************************************************************************)
\* the mixin's register_extension_class leaving construction to first use
RegisterExtensionClass_Lazy(reg, svc, nid, c) ==
  LET base == BaseRegisterExtensionClass(reg, c)
  IN  [err |-> base.err, registry |-> base.registry, services |-> svc,
       nextId |-> nid, built |-> <<>>]

\* the mixin's register_extension_class building and caching the service
\* also when the name is already taken
RegisterExtensionClass_ReplaceOnCollision(reg, svc, nid, c) ==
  LET base == BaseRegisterExtensionClass(reg, c)
  IN  IF base.err \notin {NoError, ErrCollision}
      THEN [err |-> base.err, registry |-> base.registry, services |-> svc,
            nextId |-> nid, built |-> <<>>]
      ELSE IF IsSubclass(c, SERVICE_EXTENSION_POINT)
      THEN LET k == Construct(c, SelfArg, nid)
           IN  IF k.err # NoError
               THEN [err |-> k.err, registry |-> base.registry,
                     services |-> svc, nextId |-> nid,
                     built |-> <<CtorCall(c, SelfArg, k)>>]
               ELSE [err |-> base.err, registry |-> base.registry,
                     services |-> (ExtensionName(c) :> k.inst) @@ svc,
                     nextId |-> nid + 1,
                     built |-> <<CtorCall(c, SelfArg, k)>>]
      ELSE [err |-> base.err, registry |-> base.registry, services |-> svc,
            nextId |-> nid, built |-> <<>>]

\* the mixin's register_extension_class caching the instance ahead of the
\* call of super().register_extension_class
RegisterExtensionClass_CacheBeforeRegister(reg, svc, nid, c) ==
  LET base == BaseRegisterExtensionClass(reg, c)
      service == /\ IsSubclass(c, "Extension") /\ HasExtensionName(c)
                 /\ IsSubclass(c, SERVICE_EXTENSION_POINT)
      k == Construct(c, SelfArg, nid)
  IN  IF ~service
      THEN [err |-> base.err, registry |-> base.registry, services |-> svc,
            nextId |-> nid, built |-> <<>>]
      ELSE IF k.err # NoError
      THEN [err |-> k.err, registry |-> reg, services |-> svc,
            nextId |-> nid, built |-> <<CtorCall(c, SelfArg, k)>>]
      ELSE [err |-> base.err, registry |-> base.registry,
            services |-> (ExtensionName(c) :> k.inst) @@ svc,
            nextId |-> nid + 1, built |-> <<CtorCall(c, SelfArg, k)>>]

RegisterExtensionClass(reg, svc, nid, c) ==
  LET base == BaseRegisterExtensionClass(reg, c)
  IN  IF base.err # NoError
      THEN [err |-> base.err, registry |-> base.registry, services |-> svc,
            nextId |-> nid, built |-> <<>>]
      ELSE IF IsSubclass(c, SERVICE_EXTENSION_POINT)
      THEN LET k == Construct(c, SelfArg, nid)
           IN  IF k.err # NoError
               THEN [err |-> k.err, registry |-> base.registry,
                     services |-> svc, nextId |-> nid,
                     built |-> <<CtorCall(c, SelfArg, k)>>]
               ELSE [err |-> NoError, registry |-> base.registry,
                     services |-> (ExtensionName(c) :> k.inst) @@ svc,
                     nextId |-> nid + 1,
                     built |-> <<CtorCall(c, SelfArg, k)>>]
      ELSE [err |-> NoError, registry |-> base.registry, services |-> svc,
            nextId |-> nid, built |-> <<>>]

(***************************************************************************)
(* ExtensionManager._get_extension_class and get_extension                 *)
(***************************************************************************)
GetExtensionClass(reg, p, n) ==
  IF ~IsSubclass(p, "Extension") THEN [err |-> ErrNotExtension, cls |-> ""]
  ELSE IF p \notin RegisteredPoints(reg)
  THEN [err |-> ErrInvalidPoint, cls |-> ""]
  ELSE IF ~NameIn(TableOf(reg, p), n) THEN [err |-> ErrKey, cls |-> ""]
  ELSE [err |-> NoError, cls |-> ClassOf(TableOf(reg, p), n)]

\* get_extension handing the manager to the constructor ahead of the
\* caller's arguments
BaseGetExtension_PassManager(reg, nid, p, n, call) ==
  LET look == GetExtensionClass(reg, p, n)
      full == [call EXCEPT !.args = <<"self">> \o @]
  IN  IF look.err # NoError
      THEN [err |-> look.err, inst |-> NoInst, nextId |-> nid,
            built |-> <<>>]
      ELSE LET k == Construct(look.cls, full, nid)
           IN  [err |-> k.err, inst |-> k.inst,
                nextId |-> IF k.err = NoError THEN nid + 1 ELSE nid,
                built |-> <<CtorCall(look.cls, full, k)>>]

\* get_extension reporting a failed constructor as an extension not found
BaseGetExtension_WrapCtorError(reg, nid, p, n, call) ==
  LET look == GetExtensionClass(reg, p, n)
  IN  IF look.err # NoError
      THEN [err |-> look.err, inst |-> NoInst, nextId |-> nid,
            built |-> <<>>]
      ELSE LET k == Construct(look.cls, call, nid)
           IN  [err |-> IF k.err = NoError THEN NoError
                        ELSE ErrExtensionNotFound,
                inst |-> k.inst,
                nextId |-> IF k.err = NoError THEN nid + 1 ELSE nid,
                built |-> <<CtorCall(look.cls, call, k)>>]

BaseGetExtension(reg, nid, p, n, call) ==
  LET look == GetExtensionClass(reg, p, n)
  IN  IF look.err # NoError
      THEN [err |-> look.err, inst |-> NoInst, nextId |-> nid,
            built |-> <<>>]
      ELSE LET k == Construct(look.cls, call, nid)
           IN  [err |-> k.err, inst |-> k.inst,
                nextId |-> IF k.err = NoError THEN nid + 1 ELSE nid,
                built |-> <<CtorCall(look.cls, call, k)>>]

(***************************************************************************)
(* services.ApplicationMixin.get_extension / get_service                   *)
(***************************************************************************)
\* the mixin's get_extension building a service on every call
GetExtension_Uncached(reg, svc, nid, p, n, call) ==
  BaseGetExtension(reg, nid, p, n,
                   IF p = SERVICE_EXTENSION_POINT THEN SelfArg ELSE call)

\* the mixin's get_extension consulting the cache only for a call without
\* constructor arguments
GetExtension_CacheOnlyWithoutArgs(reg, svc, nid, p, n, call) ==
  IF /\ p = SERVICE_EXTENSION_POINT /\ n \in DOMAIN svc
     /\ call = [args |-> <<>>, kwargs |-> {}]
  THEN [err |-> NoError, inst |-> svc[n], nextId |-> nid, built |-> <<>>]
  ELSE BaseGetExtension(reg, nid, p, n, call)

GetExtension(reg, svc, nid, p, n, call) ==
  IF p = SERVICE_EXTENSION_POINT /\ n \in DOMAIN svc
  THEN [err |-> NoError, inst |-> svc[n], nextId |-> nid, built |-> <<>>]
  ELSE BaseGetExtension(reg, nid, p, n, call)

GetService(reg, svc, nid, n) ==
  GetExtension(reg, svc, nid, SERVICE_EXTENSION_POINT, n,
               [args |-> <<>>, kwargs |-> {}])

\* ExtensionManager.get_extension_names_for (the names it yields, in order)
GetExtensionNamesFor(reg, p) == NamesOf(TableOf(reg, p))


(***************************************************************************)
(* ExtensionManager.load_plugin                                            *)
(* Strings that the code edits are sequences of chunks in which every      *)
(* "-", "_" and "." is a chunk of its own.                                 *)
(***************************************************************************)
\* s.replace('-', '_')
ReplaceHyphens(s) == [i \in DOMAIN s |-> IF s[i] = "-" THEN "_" ELSE s[i]]

\* the name the application was constructed with
AppName == <<"my", "-", "app">>

\* self.__name__
SelfName == ReplaceHyphens(AppName)

\* the module name built from the plugin name as it was given
FullPlugin_KeepHyphens(plugin) ==
  SelfName \o <<".", "plugins", ".">> \o plugin

\* self.__name__ + ".plugins." + plugin.replace('-', '_')
FullPlugin(plugin) == SelfName \o <<".", "plugins", ".">> \o ReplaceHyphens(plugin)

\* '__{}_extensions__'.format(self.__name__)
ExtensionsAttr == <<"_", "_">> \o SelfName \o <<"_", "extensions", "_", "_">>

\* what importlib.import_module finds for a module name: the modules on
\* the import path and the attributes each defines
NoModule == [status |-> "ImportError", attrs |-> {}, value |-> <<>>]

ImportModule(full) ==
  CASE full = <<"my", "_", "app", ".", "plugins", ".", "meh">> ->
         [status |-> "ok",
          attrs |-> {<<"_", "_", "my", "_", "app", "_", "extensions", "_", "_">>},
          value |-> <<"ExtA", "BadSvc", "FooSvc">>]
    [] full = <<"my", "_", "app", ".", "plugins", ".", "svc", "_", "s">> ->
         [status |-> "ok",
          attrs |-> {<<"_", "_", "my", "_", "app", "_", "extensions", "_", "_">>},
          value |-> <<"FooSvc", "ExtA">>]
    [] full = <<"my", "_", "app", ".", "plugins", ".", "no", "_", "attr">> ->
         [status |-> "ok",
          attrs |-> {<<"_", "_", "my", "-", "app", "_", "extensions", "_", "_">>},
          value |-> <<"ExtA">>]
    [] full = <<"my", "_", "app", ".", "plugins", ".", "bad">> ->
         [status |-> "SyntaxError", attrs |-> {}, value |-> <<>>]
    [] OTHER -> NoModule

\* the plugin names handed to load_plugin
PluginNames == {<<"meh">>, <<"meh2">>, <<"svc", "-", "s">>,
                <<"no", "-", "attr">>, <<"bad">>}

\* the loop over the extensions leaving after the first class
RegisterAll_FirstOnly(exts, reg, svc, nid, built) ==
  IF exts = <<>>
  THEN [err |-> NoError, registry |-> reg, services |-> svc,
        nextId |-> nid, built |-> built]
  ELSE LET r == RegisterExtensionClass(reg, svc, nid, Head(exts))
       IN  [r EXCEPT !.built = built \o r.built]

\* the loop over the extensions swallowing registration errors
RECURSIVE RegisterAll_ContinueAfterError(_, _, _, _, _)
RegisterAll_ContinueAfterError(exts, reg, svc, nid, built) ==
  IF exts = <<>>
  THEN [err |-> NoError, registry |-> reg, services |-> svc,
        nextId |-> nid, built |-> built]
  ELSE LET r == RegisterExtensionClass(reg, svc, nid, Head(exts))
       IN  RegisterAll_ContinueAfterError(Tail(exts), r.registry, r.services,
                                          r.nextId, built \o r.built)

\* the loop over the extensions undoing what it registered once a class is
\* refused
RegisterAll_Rollback(exts, reg, svc, nid, built) ==
  LET r == [err |-> NoError, registry |-> reg, services |-> svc,
            nextId |-> nid, built |-> built]
      RECURSIVE Loop(_, _)
      Loop(rest, st) ==
        IF rest = <<>> THEN st
        ELSE LET n == RegisterExtensionClass(st.registry, st.services,
                                             st.nextId, Head(rest))
             IN  IF n.err # NoError
                 THEN [err |-> n.err, registry |-> reg, services |-> svc,
                       nextId |-> n.nextId, built |-> st.built \o n.built]
                 ELSE Loop(Tail(rest), [n EXCEPT !.built = st.built \o n.built])
  IN  Loop(exts, r)

\* for ext in extensions: self.register_extension_class(ext)
RECURSIVE RegisterAll(_, _, _, _, _)
RegisterAll(exts, reg, svc, nid, built) ==
  IF exts = <<>>
  THEN [err |-> NoError, registry |-> reg, services |-> svc,
        nextId |-> nid, built |-> built]
  ELSE LET r == RegisterExtensionClass(reg, svc, nid, Head(exts))
       IN  IF r.err # NoError
           THEN [r EXCEPT !.built = built \o r.built]
           ELSE RegisterAll(Tail(exts), r.registry, r.services, r.nextId, built \o r.built)

\* load_plugin reading the attribute with a default of no extensions
LoadPlugin_IgnoreMissingAttr(reg, svc, nid, plugin) ==
  LET m == ImportModule(FullPlugin(plugin))
      same == [err |-> NoError, registry |-> reg, services |-> svc,
               nextId |-> nid, built |-> <<>>]
  IN  IF m.status = "ImportError"
      THEN [same EXCEPT !.err = ErrPluginNotLoaded]
      ELSE IF m.status # "ok"
      THEN [same EXCEPT !.err = m.status]
      ELSE IF ExtensionsAttr \notin m.attrs
      THEN same
      ELSE RegisterAll(m.value, reg, svc, nid, <<>>)

LoadPlugin(reg, svc, nid, plugin) ==
  LET m == ImportModule(FullPlugin(plugin))
      same == [err |-> NoError, registry |-> reg, services |-> svc,
               nextId |-> nid, built |-> <<>>]
  IN  IF m.status = "ImportError"
      THEN [same EXCEPT !.err = ErrPluginNotLoaded]
      ELSE IF m.status # "ok"
      THEN [same EXCEPT !.err = m.status]
      ELSE IF ExtensionsAttr \notin m.attrs
      THEN [same EXCEPT !.err = ErrPluginWithoutExtensions]
      ELSE RegisterAll(m.value, reg, svc, nid, <<>>)

(***************************************************************************)
(* ExtensionManager.get_extension_names_for: a generator function.  The    *)
(* call runs none of its body and returns a generator object:              *)
(*   point  the argument the generator was created with                    *)
(*   state  "created" (body not entered), "running" (suspended in the      *)
(*          yield from), "done" (returned or raised)                       *)
(*   pos    the number of names it has yielded                             *)
(*   used   the size of the table when the yield from began to iterate it  *)
(***************************************************************************)
NoGen == [point |-> "", state |-> "none", pos |-> 0, used |-> 0]

NewGen(p) == [point |-> p, state |-> "created", pos |-> 0, used |-> 0]

\* one step of the dict's key iterator yielding the newest key first
IterateTable_NewestFirst(tab, g) ==
  IF Len(tab) # g.used
  THEN [err |-> ErrDictChanged, name |-> "", gen |-> [g EXCEPT !.state = "done"]]
  ELSE IF g.pos < Len(tab)
  THEN [err |-> NoError, name |-> NamesOf(tab)[Len(tab) - g.pos],
        gen |-> [g EXCEPT !.pos = @ + 1]]
  ELSE [err |-> ErrStopIteration, name |-> "", gen |-> [g EXCEPT !.state = "done"]]

\* one step of the iteration over the table's keys in the yield from
IterateTable(tab, g) ==
  IF Len(tab) # g.used
  THEN [err |-> ErrDictChanged, name |-> "", gen |-> [g EXCEPT !.state = "done"]]
  ELSE IF g.pos < Len(tab)
  THEN [err |-> NoError, name |-> NamesOf(tab)[g.pos + 1],
        gen |-> [g EXCEPT !.pos = @ + 1]]
  ELSE [err |-> ErrStopIteration, name |-> "", gen |-> [g EXCEPT !.state = "done"]]

\* next() on the generator; optimized: the interpreter runs with -O, which
\* compiles the assert statement away
NextName(reg, g, optimized) ==
  IF g.state = "done"
  THEN [err |-> ErrStopIteration, name |-> "", gen |-> g]
  ELSE IF g.state = "created"
  THEN IF g.point \notin RegisteredPoints(reg)
       THEN [err |-> IF optimized THEN ErrKey ELSE ErrAssertion,
             name |-> "", gen |-> [g EXCEPT !.state = "done"]]
       ELSE IterateTable(TableOf(reg, g.point),
                         [g EXCEPT !.state = "running",
                                   !.used = Len(TableOf(reg, g.point))])
  ELSE IterateTable(TableOf(reg, g.point), g)

(***************************************************************************)
(* commands.CommandManager.execute.  The command line is a sequence of     *)
(* tokens; "-v" is an option of the base parser, every other token is      *)
(* positional.  The command classes define no ARGUMENTS.                   *)
(***************************************************************************)
\* the objects a command's execute may be handed as its app
TheApplication == "application"
TheCommandManager == "CommandManager"

CliOptions == {"-v"}

\* what the last token-free run looks like
NoParsed == [verbose |-> 0, subcommand |-> ""]

NoRun == [argv |-> <<>>, status |-> "none", parsed |-> NoParsed,
          built |-> <<>>, executed |-> <<>>]

\* list(self.get_commands()): one (name, instance) pair per registered
\* command, in table order
GetCommands(reg) == TableOf(reg, COMMAND_EXTENSION_POINT)

Positionals(argv) == SelectSeq(argv, LAMBDA tok : tok \notin CliOptions)

\* the index of the first positional token (0: none)
FirstPositional(argv) ==
  IF Positionals(argv) = <<>> THEN 0
  ELSE CHOOSE i \in DOMAIN argv :
         /\ argv[i] \notin CliOptions
         /\ \A j \in 1..(i - 1) : argv[j] \in CliOptions

\* argparser.parse_args(args) of the single command mode: the base options
\* and the command's own arguments (none); ok = FALSE is argparse's exit
ParseSingle(argv) ==
  IF Positionals(argv) # <<>> THEN [ok |-> FALSE, args |-> NoParsed]
  ELSE [ok |-> TRUE, args |-> [verbose |-> Len(argv), subcommand |-> ""]]

\* argparser.parse_args(args) with a sub-parser per command name
ParseMultiple(commands, argv) ==
  LET k == FirstPositional(argv)
  IN  IF k = 0
      THEN [ok |-> TRUE, args |-> [verbose |-> Len(argv), subcommand |-> ""]]
      ELSE IF ~NameIn(commands, argv[k]) \/ k < Len(argv)
      THEN [ok |-> FALSE, args |-> NoParsed]
      ELSE [ok |-> TRUE, args |-> [verbose |-> k - 1, subcommand |-> argv[k]]]

\* command.execute(app, arguments) of each command class
CommandOutcome(cls) ==
  CASE cls = "CmdA" -> "returned"
    [] cls = "CmdB" -> "ArgumentsError"
    [] cls = "CronCommand" -> "AttributeError"

\* call_execute_method: command.execute(self, arguments)
CallExecuteMethod(cls, args) ==
  [cls |-> cls, app |-> TheCommandManager, args |-> args]

\* the test for the single command mode never succeeding
SingleCommandMode_Never(commands) == FALSE

\* if len(commands) == 1
SingleCommandMode(commands) == Len(commands) = 1

Execute(reg, argv) ==
  LET commands == GetCommands(reg)
      built == [i \in DOMAIN commands |-> commands[i].cls]
      p == IF SingleCommandMode(commands) THEN ParseSingle(argv)
           ELSE ParseMultiple(commands, argv)
      cmdname == IF SingleCommandMode(commands) THEN commands[1].name
                 ELSE p.args.subcommand
      stop(status) == [argv |-> argv, status |-> status, parsed |-> p.args,
                       built |-> built, executed |-> <<>>]
  IN  IF ~p.ok THEN stop("SystemExit")
      ELSE IF ~SingleCommandMode(commands) /\ p.args.subcommand = ""
      THEN stop("help")
      ELSE LET cls == ClassOf(commands, cmdname)
           IN  [argv |-> argv,
                status |-> CASE CommandOutcome(cls) = "returned" -> "done"
                             [] CommandOutcome(cls) = "ArgumentsError"
                                  -> "command help and error message"
                             [] OTHER -> CommandOutcome(cls),
                parsed |-> p.args, built |-> built,
                executed |-> <<CallExecuteMethod(cls, p.args)>>]

(***************************************************************************)
(* namespace.Namespace.  A dotted key is the sequence of its components    *)
(* ("a.b.c" is <<"a", "b", "c">>), so item.split('.', 1) is Head and Tail. *)
(* A Namespace and the Namespaces nested in it are one function from the   *)
(* path of an item to what the _d on that path holds for it: a plain value *)
(* or a Namespace, whose own items are the paths below it.                 *)
(***************************************************************************)
ErrKeyUsedAsNamespace == "KeyUsedAsNamespaceError"

\* what a _d holds under an item
NamespaceEntry == [kind |-> "namespace", value |-> 0]
Plain(v) == [kind |-> "value", value |-> v]

\* Namespace(): self._d = dict()
EmptyNamespace == <<>>

IsProperPrefix(p, q) == Len(p) < Len(q) /\ SubSeq(q, 1, Len(p)) = p

\* self._d[item] = entry in the Namespace object at the path's parent;
\* what the replaced object held goes with it
Assign(d, path, entry) ==
  [q \in {q \in DOMAIN d : ~IsProperPrefix(path, q)} \cup {path} |->
     IF q = path THEN entry ELSE d[q]]

\* del(self._d[item])
Remove(d, path) ==
  [q \in {q \in DOMAIN d : q # path /\ ~IsProperPrefix(path, q)} |-> d[q]]

\* what __getitem__ returns: a plain value, or the Namespace object found
\* (known by the path it is stored under)
NoRet == [kind |-> "none", value |-> 0, path |-> <<>>]
Found(d, path) ==
  IF d[path].kind = "namespace"
  THEN [kind |-> "namespace", value |-> 0, path |-> path]
  ELSE [kind |-> "value", value |-> d[path].value, path |-> <<>>]

\* Namespace.__getitem__ turning every failure below the first component
\* into KeyError(item)
RECURSIVE GetItem_KeyErrorOnly(_, _, _)
GetItem_KeyErrorOnly(d, base, item) ==
  IF Len(item) = 1
  THEN IF base \o item \in DOMAIN d
       THEN [err |-> NoError, arg |-> <<>>, ret |-> Found(d, base \o item)]
       ELSE [err |-> ErrKey, arg |-> item, ret |-> NoRet]
  ELSE LET key == Head(item)
           at == Append(base, key)
       IN  IF at \notin DOMAIN d
           THEN [err |-> ErrKey, arg |-> <<key>>, ret |-> NoRet]
           ELSE IF d[at].kind # "namespace"
           THEN [err |-> ErrKeyUsedAsNamespace, arg |-> <<key>>, ret |-> NoRet]
           ELSE LET r == GetItem_KeyErrorOnly(d, at, Tail(item))
                IN  IF r.err # NoError
                    THEN [err |-> ErrKey, arg |-> item, ret |-> NoRet]
                    ELSE r

\* Namespace.__getitem__ of the Namespace object stored under base
\* (base = <<>>: the outermost one)
RECURSIVE GetItem(_, _, _)
GetItem(d, base, item) ==
  IF Len(item) = 1
  THEN IF base \o item \in DOMAIN d
       THEN [err |-> NoError, arg |-> <<>>, ret |-> Found(d, base \o item)]
       ELSE [err |-> ErrKey, arg |-> item, ret |-> NoRet]
  ELSE LET key == Head(item)
           at == Append(base, key)
       IN  IF at \notin DOMAIN d
           THEN [err |-> ErrKey, arg |-> <<key>>, ret |-> NoRet]
           ELSE IF d[at].kind # "namespace"
           THEN [err |-> ErrKeyUsedAsNamespace, arg |-> <<key>>, ret |-> NoRet]
           ELSE LET r == GetItem(d, at, Tail(item))
                IN  IF r.err = ErrKey
                    THEN [err |-> ErrKey, arg |-> item, ret |-> NoRet]
                    ELSE r

\* Namespace.get(item, default); given = FALSE: default is UNDEFINED
Get(d, item, given, default) ==
  LET r == GetItem(d, <<>>, item)
  IN  IF r.err \in {ErrKey, ErrKeyUsedAsNamespace} /\ given
      THEN [err |-> NoError, arg |-> <<>>,
            ret |-> [kind |-> "value", value |-> default, path |-> <<>>]]
      ELSE r

\* Namespace.__setitem__ leaving a Namespace it had to create unattached
RECURSIVE SetItem_Detached(_, _, _, _)
SetItem_Detached(d, base, item, value) ==
  IF Len(item) = 1
  THEN [err |-> NoError, arg |-> <<>>,
        d |-> Assign(d, base \o item, Plain(value))]
  ELSE LET key == Head(item)
           at == Append(base, key)
       IN  IF at \notin DOMAIN d
           THEN [err |-> NoError, arg |-> <<>>, d |-> d]
           ELSE IF d[at].kind # "namespace"
           THEN [err |-> ErrKeyUsedAsNamespace, arg |-> <<key>>, d |-> d]
           ELSE SetItem_Detached(d, at, Tail(item), value)

\* Namespace.__setitem__ of the Namespace object stored under base.  The
\* Namespace() made by self.get(key, Namespace()) is entered under key
\* here before ns[subkey] = value runs and is dropped again when that
\* raises, which is what the code's later self[key] = ns amounts to.
RECURSIVE SetItem(_, _, _, _)
SetItem(d, base, item, value) ==
  IF Len(item) = 1
  THEN [err |-> NoError, arg |-> <<>>,
        d |-> Assign(d, base \o item, Plain(value))]
  ELSE LET key == Head(item)
           at == Append(base, key)
           fresh == at \notin DOMAIN d
       IN  IF ~fresh /\ d[at].kind # "namespace"
           THEN [err |-> ErrKeyUsedAsNamespace, arg |-> <<key>>, d |-> d]
           ELSE LET r == SetItem(IF fresh THEN Assign(d, at, NamespaceEntry)
                                 ELSE d,
                                 at, Tail(item), value)
                IN  IF r.err # NoError THEN [r EXCEPT !.d = d] ELSE r

\* Namespace.__delitem__ of the Namespace object stored under base
RECURSIVE DelItem(_, _, _)
DelItem(d, base, item) ==
  IF Len(item) = 1
  THEN IF base \o item \in DOMAIN d
       THEN [err |-> NoError, arg |-> <<>>, d |-> Remove(d, base \o item)]
       ELSE [err |-> ErrKey, arg |-> item, d |-> d]
  ELSE LET key == Head(item)
           at == Append(base, key)
       IN  IF at \notin DOMAIN d
           THEN [err |-> ErrKey, arg |-> <<key>>, d |-> d]
           ELSE IF d[at].kind # "namespace"
           THEN [err |-> ErrKeyUsedAsNamespace, arg |-> <<key>>, d |-> d]
           ELSE DelItem(d, at, Tail(item))

NsCall(op, key, value, err, arg, ret) ==
  [op |-> op, key |-> key, value |-> value, err |-> err, arg |-> arg,
   ret |-> ret]

NoNsCall == NsCall("init", <<>>, 0, NoError, <<>>, NoRet)

(***************************************************************************)
(* appkit/signaler.py: Signaler.  The _signals dict is a sequence of       *)
(* [name, receivers] in insertion order; receivers is what the             *)
(* blinker.Signal of that name has connected.                              *)
(***************************************************************************)
ErrTypeError == "TypeError"
ErrUnknowSignal == "UnknowSignalError"
ErrSignalRegister == "SignalRegisterError"

\* the names signals are asked for, and the callables connected
SignalNames == {"s1", "s2"}
Receivers == {"f", "g"}

\* list(self._signals.keys()) as a set
Registered(sigs) == {sigs[i].name : i \in DOMAIN sigs}

\* self._signals[name], by its position
SignalAt(sigs, name) == CHOOSE i \in DOMAIN sigs : sigs[i].name = name

\* what the expression UnknowSignalError(args...) ends with: __init__ takes
\* (self, signal, message), neither with a default
NewUnknowSignalError(args) ==
  IF Len(args) = 2 THEN ErrUnknowSignal ELSE ErrTypeError

\* Signaler.get_signal
GetSignal(sigs, name) ==
  IF name \notin Registered(sigs)
  THEN [err |-> NewUnknowSignalError(<<name>>), at |-> 0]
  ELSE [err |-> NoError, at |-> SignalAt(sigs, name)]

\* Signaler.register
Register(sigs, name) ==
  IF name \in Registered(sigs)
  THEN [err |-> ErrSignalRegister, signals |-> sigs, sent |-> {}]
  ELSE [err |-> NoError,
        signals |-> Append(sigs, [name |-> name, receivers |-> {}]),
        sent |-> {}]

\* Signaler.connect: self.get_signal(name).connect(call)
Connect(sigs, name, call) ==
  LET g == GetSignal(sigs, name)
  IN  IF g.err # NoError
      THEN [err |-> g.err, signals |-> sigs, sent |-> {}]
      ELSE [err |-> NoError,
            signals |-> [sigs EXCEPT ![g.at].receivers = @ \cup {call}],
            sent |-> {}]

\* Signaler.disconnect: self.get_signal(name).disconnect(call)
Disconnect(sigs, name, call) ==
  LET g == GetSignal(sigs, name)
  IN  IF g.err # NoError
      THEN [err |-> g.err, signals |-> sigs, sent |-> {}]
      ELSE [err |-> NoError,
            signals |-> [sigs EXCEPT ![g.at].receivers = @ \ {call}],
            sent |-> {}]

\* Signaler.send: self.get_signal(name).send(); sent: the receivers called
Send(sigs, name) ==
  LET g == GetSignal(sigs, name)
  IN  IF g.err # NoError
      THEN [err |-> g.err, signals |-> sigs, sent |-> {}]
      ELSE [err |-> NoError, signals |-> sigs,
            sent |-> sigs[g.at].receivers]

SigCall(op, name, call, err, sent) ==
  [op |-> op, name |-> name, call |-> call, err |-> err, sent |-> sent]

NoSigCall == SigCall("init", "", "", NoError, {})

(***************************************************************************)
(* appkit/store.py: Store = StoreAdaptor, a Namespace whose __setitem__    *)
(* runs the validators.  The Namespaces inside a Store are plain           *)
(* Namespaces (namespace.py makes them with Namespace()).                  *)
(* Python values are coded by numbers: 1 and 2 are the ints, Float11 is    *)
(* the float 1.1 and StrA is the str 'a'.                                  *)
(***************************************************************************)
ErrValidation == "ValidationError"
ErrIllegalKey == "IllegalKeyError"
ErrValue == "ValueError"

Float11 == 11
StrA == 97

\* the keys and values handed to Store.set
StoreKeys == {<<"int">>, <<"int", "b">>, <<"a">>}
StoreValues == {1, 2, Float11, StrA}

\* isinstance(v, int)
IsInt(e) == e.kind = "value" /\ e.value \in {1, 2}

\* int(v)
ToInt(e) ==
  IF e.kind # "value" THEN [err |-> ErrTypeError, entry |-> e]
  ELSE IF e.value = StrA THEN [err |-> ErrValue, entry |-> e]
  ELSE IF e.value = Float11 THEN [err |-> NoError, entry |-> Plain(1)]
  ELSE [err |-> NoError, entry |-> e]

\* the validators added to a Store: the two of tests/store.py and
\* TypeValidator({'int': int})
Validators == {"validator_simple", "validator_alters", "TypeValidator"}

\* the type_map of the TypeValidator
TypeMapKeys == {<<"int">>}

\* vfunc(k, v): the value returned or the exception raised
Validate(vfunc, k, e) ==
  CASE vfunc = "validator_simple" ->
         IF k = <<"int">> /\ ~IsInt(e)
         THEN [err |-> ErrValidation, entry |-> e]
         ELSE [err |-> NoError, entry |-> e]
    [] vfunc = "validator_alters" ->
         IF k = <<"int">> /\ ~IsInt(e)
         THEN IF ToInt(e).err = ErrValue
              THEN [err |-> ErrValidation, entry |-> e]
              ELSE ToInt(e)
         ELSE [err |-> NoError, entry |-> e]
    [] vfunc = "TypeValidator" ->
         IF k \in TypeMapKeys
         THEN IF ToInt(e).err # NoError
              THEN [err |-> ErrValidation, entry |-> e]
              ELSE ToInt(e)
         ELSE [err |-> NoError, entry |-> e]

\* for vfunc in self._validators: value = vfunc(key, value)
RECURSIVE ProcessValue(_, _, _)
ProcessValue(vs, k, e) ==
  IF vs = <<>> THEN [err |-> NoError, entry |-> e]
  ELSE LET r == Validate(Head(vs), k, e)
       IN  IF r.err # NoError THEN r
           ELSE ProcessValue(Tail(vs), k, r.entry)

\* except TypeError as e: raise IllegalKeyError(e.args[0])
AsIllegalKey(err) == IF err = ErrTypeError THEN ErrIllegalKey ELSE err

\* StoreAdaptor.__setitem__(item, value) on the Store itself: the
\* validators, then Namespace.__setitem__, whose self[key] = ns is
\* StoreAdaptor.__setitem__(key, ns) again.  A Namespace that
\* self.get(key, Namespace()) found in the Store has been written by
\* ns[subkey] = value when the validators see it; one just made is dropped
\* when they refuse it.
StoreSetItem(d, vs, item, value) ==
  LET p == ProcessValue(vs, item, Plain(value))
  IN  IF p.err # NoError THEN [err |-> AsIllegalKey(p.err), d |-> d]
      ELSE IF Len(item) = 1
      THEN [err |-> NoError, d |-> Assign(d, item, p.entry)]
      ELSE LET key == <<Head(item)>>
               fresh == key \notin DOMAIN d
           IN  IF ~fresh /\ d[key].kind # "namespace"
               THEN [err |-> ErrKeyUsedAsNamespace, d |-> d]
               ELSE LET r == SetItem(IF fresh
                                     THEN Assign(d, key, NamespaceEntry)
                                     ELSE d,
                                     key, Tail(item), p.entry.value)
                        q == ProcessValue(vs, key, NamespaceEntry)
                    IN  IF r.err # NoError THEN [err |-> r.err, d |-> d]
                        ELSE IF q.err # NoError
                        THEN [err |-> AsIllegalKey(q.err),
                              d |-> IF fresh THEN d ELSE r.d]
                        ELSE IF q.entry.kind = "namespace"
                        THEN [err |-> NoError, d |-> r.d]
                        ELSE [err |-> NoError, d |-> Assign(r.d, key, q.entry)]

StoreCall(op, key, value, err) ==
  [op |-> op, key |-> key, value |-> value, err |-> err]

NoStoreCall == StoreCall("init", <<>>, 0, NoError)

(***************************************************************************)
(* appkit/application/cron.py: CronManager (appkit/cron.py holds the same  *)
(* code under older names).  load_checkpoint and save_checkpoint are       *)
(* abstract; the manager modelled keeps one last-execution per task name.  *)
(* The task classes:                                                       *)
(*   TaskA           INTERVAL = 2      execute returns None                *)
(*   TaskFail        INTERVAL = 1      execute raises an ExtensionError    *)
(*   TaskCrash       INTERVAL = 1      execute raises a ValueError         *)
(*   TaskReq         __init__ raises RequirementError (an ExtensionError)  *)
(*   TaskNoInterval  INTERVAL = None   Task.__init__ raises TypeError      *)
(***************************************************************************)
ErrExtension == "ExtensionError"

\* Python's None where a number may stand
None == -1

\* task.INTERVAL once Task.__init__ has parsed it, in seconds
INTERVAL(c) == IF c = "TaskA" THEN 2 ELSE 1

\* seconds that pass while task.execute(app) runs
Duration(c) == IF c = "TaskA" THEN 1 ELSE 0

\* cls(): Task.__init__ and the __init__ of the class
TaskInit(c) ==
  CASE c = "TaskReq" -> ErrExtension
    [] c = "TaskNoInterval" -> ErrTypeError
    [] OTHER -> NoError

\* task.execute(app)
TaskExecute(c) ==
  CASE c = "TaskFail" -> ErrExtension
    [] c = "TaskCrash" -> ErrValue
    [] OTHER -> NoError

\* load_checkpoint(task) of the manager modelled
LoadCheckpoint(cp, name) ==
  IF name \in DOMAIN cp THEN [last_execution |-> cp[name]]
  ELSE [last_execution |-> None]

\* save_checkpoint(task, checkpoint) of the manager modelled
SaveCheckpoint(cp, name, checkpoint) ==
  (name :> checkpoint.last_execution) @@ cp

\* CronManager.execute saving the time the task was started at
CronExecute_SaveStartTime(cp, now, c, force) ==
  LET tmp == LoadCheckpoint(cp, ExtensionName(c))
      checkpoint == IF tmp.last_execution # None THEN tmp
                    ELSE [last_execution |-> 0]
      timedelta == now - checkpoint.last_execution
  IN  IF force \/ timedelta >= INTERVAL(c)
      THEN IF TaskExecute(c) # NoError
           THEN [err |-> TaskExecute(c), ran |-> <<c>>, saved |-> <<>>,
                 checkpoints |-> cp, clock |-> now + Duration(c)]
           ELSE [err |-> NoError, ran |-> <<c>>,
                 saved |-> <<[task |-> c, last_execution |-> now]>>,
                 checkpoints |-> SaveCheckpoint(cp, ExtensionName(c),
                                   [last_execution |-> now]),
                 clock |-> now + Duration(c)]
      ELSE [err |-> NoError, ran |-> <<>>, saved |-> <<>>,
            checkpoints |-> cp, clock |-> now]

\* CronManager.execute(task, force) for a task of class c, at time now
\*   ran    the tasks whose execute was called
\*   saved  the calls of save_checkpoint
\*   clock  the time when execute is left
CronExecute(cp, now, c, force) ==
  LET tmp == LoadCheckpoint(cp, ExtensionName(c))
      checkpoint == IF tmp.last_execution # None THEN tmp
                    ELSE [last_execution |-> 0]
      timedelta == now - checkpoint.last_execution
      done == now + Duration(c)
  IN  IF force \/ timedelta >= INTERVAL(c)
      THEN IF TaskExecute(c) # NoError
           THEN [err |-> TaskExecute(c), ran |-> <<c>>, saved |-> <<>>,
                 checkpoints |-> cp, clock |-> done]
           ELSE [err |-> NoError, ran |-> <<c>>,
                 saved |-> <<[task |-> c, last_execution |-> done]>>,
                 checkpoints |-> SaveCheckpoint(cp, ExtensionName(c),
                                   [last_execution |-> done]),
                 clock |-> done]
      ELSE [err |-> NoError, ran |-> <<>>, saved |-> <<>>,
            checkpoints |-> cp, clock |-> now]

\* CronManager.get_task: self.app.get_extension(TASK_EXTENSION_POINT, name)
GetTask(reg, name) ==
  LET look == GetExtensionClass(reg, TASK_EXTENSION_POINT, name)
  IN  IF look.err # NoError THEN [err |-> look.err, cls |-> ""]
      ELSE [err |-> TaskInit(look.cls), cls |-> look.cls]

\* execute_all giving up at the first task that raises an ExtensionError
RECURSIVE ExecuteAll_StopAtError(_, _, _, _, _, _)
ExecuteAll_StopAtError(names, reg, cp, now, force, acc) ==
  IF names = <<>>
  THEN [err |-> NoError, ret |-> acc.ret, ran |-> acc.ran,
        saved |-> acc.saved, checkpoints |-> cp, clock |-> now]
  ELSE LET t == GetTask(reg, Head(names))
           r == CronExecute(cp, now, t.cls, force)
       IN  IF t.err = ErrExtension
           THEN ExecuteAll_StopAtError(Tail(names), reg, cp, now, force, acc)
           ELSE IF t.err # NoError
           THEN [err |-> t.err, ret |-> <<>>, ran |-> acc.ran,
                 saved |-> acc.saved, checkpoints |-> cp, clock |-> now]
           ELSE IF r.err = ErrExtension
           THEN [err |-> NoError,
                 ret |-> Append(acc.ret, [task |-> t.cls, result |-> r.err]),
                 ran |-> acc.ran \o r.ran, saved |-> acc.saved \o r.saved,
                 checkpoints |-> r.checkpoints, clock |-> r.clock]
           ELSE IF r.err # NoError
           THEN [err |-> r.err, ret |-> <<>>, ran |-> acc.ran \o r.ran,
                 saved |-> acc.saved, checkpoints |-> r.checkpoints,
                 clock |-> r.clock]
           ELSE ExecuteAll_StopAtError(Tail(names), reg, r.checkpoints,
                  r.clock, force,
                  [ret |-> Append(acc.ret, [task |-> t.cls, result |-> "None"]),
                   ran |-> acc.ran \o r.ran, saved |-> acc.saved \o r.saved])

\* CronManager.execute_all(force) over the names get_tasks still has to
\* visit; acc: what was returned, run and saved so far.  An exception
\* other than ExtensionError leaves execute_all, and nothing is returned.
RECURSIVE ExecuteAll(_, _, _, _, _, _)
ExecuteAll(names, reg, cp, now, force, acc) ==
  IF names = <<>>
  THEN [err |-> NoError, ret |-> acc.ret, ran |-> acc.ran,
        saved |-> acc.saved, checkpoints |-> cp, clock |-> now]
  ELSE LET t == GetTask(reg, Head(names))
           r == CronExecute(cp, now, t.cls, force)
       IN  IF t.err = ErrExtension
           THEN ExecuteAll(Tail(names), reg, cp, now, force, acc)
           ELSE IF t.err # NoError
           THEN [err |-> t.err, ret |-> <<>>, ran |-> acc.ran,
                 saved |-> acc.saved, checkpoints |-> cp, clock |-> now]
           ELSE IF r.err \notin {NoError, ErrExtension}
           THEN [err |-> r.err, ret |-> <<>>, ran |-> acc.ran \o r.ran,
                 saved |-> acc.saved, checkpoints |-> r.checkpoints,
                 clock |-> r.clock]
           ELSE ExecuteAll(Tail(names), reg, r.checkpoints, r.clock, force,
                  [ret |-> Append(acc.ret,
                             [task |-> t.cls,
                              result |-> IF r.err = NoError THEN "None"
                                         ELSE r.err]),
                   ran |-> acc.ran \o r.ran, saved |-> acc.saved \o r.saved])

CronCall(op, task, force, err, ret, ran, saved) ==
  [op |-> op, task |-> task, force |-> force, err |-> err, ret |-> ret,
   ran |-> ran, saved |-> saved]

NoCronCall == CronCall("init", "", FALSE, NoError, <<>>, <<>>, <<>>)

\* the objects outside the application as they are constructed:
\* Signaler(), Store(), and a CronManager that never ran a task
InitUtil ==
  /\ signals = <<>>
  /\ sigLast = NoSigCall
  /\ store = EmptyNamespace
  /\ validators = <<>>
  /\ storeLast = NoStoreCall
  /\ clock = 0
  /\ checkpoints = <<>>
  /\ cronLast = NoCronCall

(***************************************************************************)
(* The state machine.                                                      *)
(*   registry  self._registry                                              *)
(*   services  self._services                                              *)
(*   nextId    identity of the next object constructed                     *)
(*   got       the most recent results of get_extension / get_service:     *)
(*             the call and the identity of the object it returned         *)
(*   last      the last call: its arguments, its outcome and the           *)
(*             constructor invocations made during it                      *)
(*   gen       the generator returned by the last get_extension_names_for  *)
(*   cli       the last CommandManager.execute: its arguments and what it  *)
(*             did                                                         *)
(*   ns        a Namespace: the contents of its _d and of the _d of the    *)
(*             Namespaces inside it                                        *)
(*   nsLast    the last call on the Namespace and its outcome              *)
(***************************************************************************)
NoCall == [args |-> <<>>, kwargs |-> {}]

Call(op, point, cls, name, plugin, call, err, inst, retcls, built) ==
  [op |-> op, point |-> point, cls |-> cls, name |-> name,
   plugin |-> plugin, call |-> call, err |-> err, inst |-> inst,
   retcls |-> retcls, built |-> built]

\* ApplicationMixin.__init__: ExtensionManager.__init__, then
\* register_extension_point(SERVICE_EXTENSION_POINT), then _services = {}
Init ==
  /\ registry = AddPoint(<<>>, SERVICE_EXTENSION_POINT)
  /\ services = <<>>
  /\ nextId = 1
  /\ got = <<>>
  /\ last = Call("init", "", "", "", <<>>, NoCall, NoError, NoInst, "", <<>>)
  /\ gen = NoGen
  /\ cli = NoRun
  /\ ns = EmptyNamespace
  /\ nsLast = NoNsCall
  /\ InitUtil

\* the points and names asked for in lookups
LookupPoints == {"Service", "TypeA", "FooType", "str"}

Remember(g, op, p, n, inst) ==
  LET e == [op |-> op, point |-> p, name |-> n, id |-> inst.id,
            cached |-> p = SERVICE_EXTENSION_POINT /\ n \in DOMAIN services]
  IN  IF Len(g) < MaxGot THEN Append(g, e) ELSE Append(Tail(g), e)

register_extension_point(t) ==
  LET r == RegisterExtensionPoint(registry, t)
  IN  /\ registry' = r.registry
      /\ last' = Call("register_extension_point", t, "", "", <<>>, NoCall,
                      r.err, NoInst, "", <<>>)
      /\ UNCHANGED <<services, nextId, got, gen, cli, dataVars>>

register_extension_class(c) ==
  LET r == RegisterExtensionClass(registry, services, nextId, c)
  IN  /\ r.nextId <= MaxInst + 1
      /\ registry' = r.registry
      /\ services' = r.services
      /\ nextId' = r.nextId
      /\ last' = Call("register_extension_class", "", c, "", <<>>, NoCall,
                      r.err, NoInst, "", r.built)
      /\ UNCHANGED <<got, gen, cli, dataVars>>

load_plugin(plugin) ==
  LET r == LoadPlugin(registry, services, nextId, plugin)
  IN  /\ r.nextId <= MaxInst + 1
      /\ registry' = r.registry
      /\ services' = r.services
      /\ nextId' = r.nextId
      /\ last' = Call("load_plugin", "", "", "", plugin, NoCall,
                      r.err, NoInst, "", r.built)
      /\ UNCHANGED <<got, gen, cli, dataVars>>

get_extension_class(p, n) ==
  LET r == GetExtensionClass(registry, p, n)
  IN  /\ last' = Call("get_extension_class", p, "", n, <<>>, NoCall,
                      r.err, NoInst, r.cls, <<>>)
      /\ UNCHANGED <<registry, services, nextId, got, gen, cli, dataVars>>

get_extension(p, n, call) ==
  LET r == GetExtension(registry, services, nextId, p, n, call)
  IN  /\ r.nextId <= MaxInst + 1
      /\ nextId' = r.nextId
      /\ got' = IF r.err = NoError THEN Remember(got, "get_extension", p, n, r.inst) ELSE got
      /\ last' = Call("get_extension", p, "", n, <<>>, call,
                      r.err, r.inst, "", r.built)
      /\ UNCHANGED <<registry, services, gen, cli, dataVars>>

get_service(n) ==
  LET r == GetService(registry, services, nextId, n)
  IN  /\ r.nextId <= MaxInst + 1
      /\ nextId' = r.nextId
      /\ got' = IF r.err = NoError
                THEN Remember(got, "get_service", SERVICE_EXTENSION_POINT, n, r.inst)
                ELSE got
      /\ last' = Call("get_service", SERVICE_EXTENSION_POINT, "", n, <<>>,
                      NoCall, r.err, r.inst, "", r.built)
      /\ UNCHANGED <<registry, services, gen, cli, dataVars>>

Next ==
  \/ \E t \in Types : register_extension_point(t)
  \/ \E c \in Types : register_extension_class(c)
  \/ \E p \in PluginNames : load_plugin(p)
  \/ \E p \in LookupPoints, n \in Names : get_extension_class(p, n)
  \/ \E p \in LookupPoints, n \in Names, call \in CallArgs :
        get_extension(p, n, call)
  \/ \E n \in Names : get_service(n)

Spec == Init /\ [][Next]_vars

(***************************************************************************)
(* A plain ExtensionManager and the generators of its                      *)
(* get_extension_names_for.                                                *)
(***************************************************************************)
\* ExtensionManager.__init__: self._registry = {}
InitNames ==
  /\ registry = <<>>
  /\ services = <<>>
  /\ nextId = 1
  /\ got = <<>>
  /\ last = Call("init", "", "", "", <<>>, NoCall, NoError, NoInst, "", <<>>)
  /\ gen = NoGen
  /\ cli = NoRun
  /\ ns = EmptyNamespace
  /\ nsLast = NoNsCall
  /\ InitUtil

\* ExtensionManager.register_extension_class, not overridden
base_register_extension_class(c) ==
  LET r == BaseRegisterExtensionClass(registry, c)
  IN  /\ registry' = r.registry
      /\ last' = Call("register_extension_class", "", c, "", <<>>, NoCall,
                      r.err, NoInst, "", <<>>)
      /\ UNCHANGED <<services, nextId, got, gen, cli, dataVars>>

\* g = em.get_extension_names_for(p)
get_extension_names_for(p) ==
  /\ gen' = NewGen(p)
  /\ last' = Call("get_extension_names_for", p, "", "", <<>>, NoCall,
                  NoError, NoInst, "", <<>>)
  /\ UNCHANGED <<registry, services, nextId, got, cli, dataVars>>

\* next(g)
next(optimized) ==
  /\ gen # NoGen
  /\ LET r == NextName(registry, gen, optimized)
     IN  /\ gen' = r.gen
         /\ last' = Call("next", gen.point, "", r.name, <<>>, NoCall,
                         r.err, NoInst, "", <<>>)
  /\ UNCHANGED <<registry, services, nextId, got, cli, dataVars>>

NextNames ==
  \/ \E t \in Types : register_extension_point(t)
  \/ \E c \in Types : base_register_extension_class(c)
  \/ \E p \in LookupPoints : get_extension_names_for(p)
  \/ \E optimized \in BOOLEAN : next(optimized)

SpecNames == InitNames /\ [][NextNames]_vars

(***************************************************************************)
(* A BaseApplication with a CommandManager.                                *)
(***************************************************************************)
\* the token lists handed to CommandManager.execute
Argvs == {<<>>, <<"-v">>, <<"a">>, <<"b">>, <<"cron">>, <<"zz">>,
          <<"-v", "a">>, <<"a", "-v">>, <<"a", "b">>}

\* CommandManager.__init__: app.register_extension_point(Command)
InitCli ==
  /\ registry = AddPoint(<<>>, COMMAND_EXTENSION_POINT)
  /\ services = <<>>
  /\ nextId = 1
  /\ got = <<>>
  /\ last = Call("init", "", "", "", <<>>, NoCall, NoError, NoInst, "", <<>>)
  /\ gen = NoGen
  /\ cli = NoRun
  /\ ns = EmptyNamespace
  /\ nsLast = NoNsCall
  /\ InitUtil

\* CommandManager.execute(*argv)
execute(argv) ==
  /\ cli' = Execute(registry, argv)
  /\ last' = Call("execute", "", "", "", <<>>, NoCall, NoError, NoInst,
                  "", <<>>)
  /\ UNCHANGED <<registry, services, nextId, got, gen, dataVars>>

NextCli ==
  \/ \E c \in CommandTypes \cup {"ExtA"} : base_register_extension_class(c)
  \/ \E argv \in Argvs : execute(argv)

SpecCli == InitCli /\ [][NextCli]_vars

(***************************************************************************)
(* A Namespace.                                                            *)
(***************************************************************************)
\* the keys and the values handed to the Namespace
Keys == {<<"a">>, <<"b">>, <<"a", "b">>, <<"a", "c">>, <<"b", "a">>,
         <<"a", "b", "c">>}
Values == {1, 2}

\* ns = Namespace()
InitNamespace ==
  /\ registry = <<>>
  /\ services = <<>>
  /\ nextId = 1
  /\ got = <<>>
  /\ last = Call("init", "", "", "", <<>>, NoCall, NoError, NoInst, "", <<>>)
  /\ gen = NoGen
  /\ cli = NoRun
  /\ ns = EmptyNamespace
  /\ nsLast = NoNsCall
  /\ InitUtil

\* ns.set(key, value), ns[key] = value
Namespace_set(key, value) ==
  LET r == SetItem(ns, <<>>, key, value)
  IN  /\ ns' = r.d
      /\ nsLast' = NsCall("set", key, value, r.err, r.arg, NoRet)
      /\ UNCHANGED <<managerVars, utilVars>>

\* ns.get(key), ns[key]
Namespace_get(key) ==
  LET r == Get(ns, key, FALSE, 0)
  IN  /\ nsLast' = NsCall("get", key, 0, r.err, r.arg, r.ret)
      /\ UNCHANGED <<managerVars, ns, utilVars>>

\* ns.get(key, default)
Namespace_get_default(key, default) ==
  LET r == Get(ns, key, TRUE, default)
  IN  /\ nsLast' = NsCall("get with default", key, default, r.err, r.arg,
                          r.ret)
      /\ UNCHANGED <<managerVars, ns, utilVars>>

\* ns.delete(key), del ns[key]
Namespace_delete(key) ==
  LET r == DelItem(ns, <<>>, key)
  IN  /\ ns' = r.d
      /\ nsLast' = NsCall("delete", key, 0, r.err, r.arg, NoRet)
      /\ UNCHANGED <<managerVars, utilVars>>

NextNamespace ==
  \/ \E key \in Keys, value \in Values : Namespace_set(key, value)
  \/ \E key \in Keys : Namespace_get(key)
  \/ \E key \in Keys, default \in Values : Namespace_get_default(key, default)
  \/ \E key \in Keys : Namespace_delete(key)

SpecNamespace == InitNamespace /\ [][NextNamespace]_vars

(***************************************************************************)
(* A Signaler on its own.                                                  *)
(***************************************************************************)
\* an application that was never constructed
NoManager ==
  /\ registry = <<>>
  /\ services = <<>>
  /\ nextId = 1
  /\ got = <<>>
  /\ last = Call("init", "", "", "", <<>>, NoCall, NoError, NoInst, "", <<>>)
  /\ gen = NoGen
  /\ cli = NoRun

\* Signaler(): self._signals = {}
InitSignaler ==
  /\ NoManager
  /\ ns = EmptyNamespace
  /\ nsLast = NoNsCall
  /\ InitUtil

Signaler_register(name) ==
  LET r == Register(signals, name)
  IN  /\ signals' = r.signals
      /\ sigLast' = SigCall("register", name, "", r.err, r.sent)
      /\ UNCHANGED <<managerVars, ns, nsLast, storeVars, cronVars>>

Signaler_get_signal(name) ==
  LET r == GetSignal(signals, name)
  IN  /\ sigLast' = SigCall("get_signal", name, "", r.err, {})
      /\ UNCHANGED <<managerVars, ns, nsLast, signals, storeVars, cronVars>>

Signaler_connect(name, call) ==
  LET r == Connect(signals, name, call)
  IN  /\ signals' = r.signals
      /\ sigLast' = SigCall("connect", name, call, r.err, r.sent)
      /\ UNCHANGED <<managerVars, ns, nsLast, storeVars, cronVars>>

Signaler_disconnect(name, call) ==
  LET r == Disconnect(signals, name, call)
  IN  /\ signals' = r.signals
      /\ sigLast' = SigCall("disconnect", name, call, r.err, r.sent)
      /\ UNCHANGED <<managerVars, ns, nsLast, storeVars, cronVars>>

Signaler_send(name) ==
  LET r == Send(signals, name)
  IN  /\ signals' = r.signals
      /\ sigLast' = SigCall("send", name, "", r.err, r.sent)
      /\ UNCHANGED <<managerVars, ns, nsLast, storeVars, cronVars>>

NextSignaler ==
  \/ \E name \in SignalNames : Signaler_register(name)
  \/ \E name \in SignalNames : Signaler_get_signal(name)
  \/ \E name \in SignalNames, call \in Receivers : Signaler_connect(name, call)
  \/ \E name \in SignalNames, call \in Receivers : Signaler_disconnect(name, call)
  \/ \E name \in SignalNames : Signaler_send(name)

SpecSignaler == InitSignaler /\ [][NextSignaler]_vars

(***************************************************************************)
(* A Store on its own.                                                     *)
(***************************************************************************)
\* validators a Store is given
MaxValidators == 2

\* Store()
InitStore ==
  /\ NoManager
  /\ ns = EmptyNamespace
  /\ nsLast = NoNsCall
  /\ InitUtil

\* store.add_validator(fn)
Store_add_validator(fn) ==
  /\ Len(validators) < MaxValidators
  /\ validators' = Append(validators, fn)
  /\ storeLast' = StoreCall("add_validator", <<fn>>, 0, NoError)
  /\ UNCHANGED <<managerVars, ns, nsLast, signalerVars, store, cronVars>>

\* store.set(key, value), store[key] = value
Store_set(key, value) ==
  LET r == StoreSetItem(store, validators, key, value)
  IN  /\ store' = r.d
      /\ storeLast' = StoreCall("set", key, value, r.err)
      /\ UNCHANGED <<managerVars, ns, nsLast, signalerVars, validators, cronVars>>

NextStore ==
  \/ \E fn \in Validators : Store_add_validator(fn)
  \/ \E key \in StoreKeys, value \in StoreValues : Store_set(key, value)

SpecStore == InitStore /\ [][NextStore]_vars

(***************************************************************************)
(* An application with a CronManager.                                      *)
(***************************************************************************)
\* the latest time on the clock
MaxClock == 3

\* CronManager(app): registers TASK_EXTENSION_POINT with the application
InitCron ==
  /\ registry = AddPoint(<<>>, TASK_EXTENSION_POINT)
  /\ services = <<>>
  /\ nextId = 1
  /\ got = <<>>
  /\ last = Call("init", "", "", "", <<>>, NoCall, NoError, NoInst, "", <<>>)
  /\ gen = NoGen
  /\ cli = NoRun
  /\ ns = EmptyNamespace
  /\ nsLast = NoNsCall
  /\ InitUtil

\* a second passes
tick ==
  /\ clock < MaxClock
  /\ clock' = clock + 1
  /\ cronLast' = CronCall("tick", "", FALSE, NoError, <<>>, <<>>, <<>>)
  /\ UNCHANGED <<managerVars, ns, nsLast, signalerVars, storeVars, checkpoints>>

\* manager.execute(task, force) with a task of class c
CronManager_execute(c, force) ==
  LET r == CronExecute(checkpoints, clock, c, force)
  IN  /\ TaskInit(c) = NoError
      /\ r.clock <= MaxClock
      /\ clock' = r.clock
      /\ checkpoints' = r.checkpoints
      /\ cronLast' = CronCall("execute", c, force, r.err, <<>>, r.ran, r.saved)
      /\ UNCHANGED <<managerVars, ns, nsLast, signalerVars, storeVars>>

\* manager.execute_all(force)
CronManager_execute_all(force) ==
  LET r == ExecuteAll(GetExtensionNamesFor(registry, TASK_EXTENSION_POINT),
                      registry, checkpoints, clock, force,
                      [ret |-> <<>>, ran |-> <<>>, saved |-> <<>>])
  IN  /\ r.clock <= MaxClock
      /\ clock' = r.clock
      /\ checkpoints' = r.checkpoints
      /\ cronLast' = CronCall("execute_all", "", force, r.err, r.ret, r.ran,
                              r.saved)
      /\ UNCHANGED <<managerVars, ns, nsLast, signalerVars, storeVars>>

NextCron ==
  \/ \E c \in TaskTypes : base_register_extension_class(c)
  \/ tick
  \/ \E c \in TaskTypes, force \in BOOLEAN : CronManager_execute(c, force)
  \/ \E force \in BOOLEAN : CronManager_execute_all(force)

SpecCron == InitCron /\ [][NextCron]_vars


(***************************************************************************)
(* Properties.                                                             *)
(***************************************************************************)
\* the step just taken was a call of op (every call rewrites last)
Called(op) == last'.op = op

\* cls is a subtype of the registered point p
Matches(cls, p) == p \in Ancestors(cls)

\* the registered points of reg that cls matches
PointsMatching(reg, cls) == {p \in RegisteredPoints(reg) : Matches(cls, p)}

\* the number of times n occurs in the sequence of names
Occurrences(names, n) == Cardinality({i \in DOMAIN names : names[i] = n})

\* C1: a register_extension_class call for a class whose name is already
\* taken in one of the registered points it matches fails with the
\* name-collision error, changes no point's table (also not the tables of
\* matching points where the name was free), and the name still resolves to
\* the class registered first.
C1_CollisionAllOrNothing ==
  [][\A c \in Types :
       (/\ Called("register_extension_class")
        /\ last'.cls = c
        /\ \E p \in PointsMatching(registry, c) :
              NameIn(TableOf(registry, p), ExtensionName(c)))
       => /\ last'.err = ErrCollision
          /\ registry' = registry
          /\ \A p \in RegisteredPoints(registry) :
               NameIn(TableOf(registry, p), ExtensionName(c))
               => GetExtensionClass(registry', p, ExtensionName(c)) =
                    [err |-> NoError,
                     cls |-> ClassOf(TableOf(registry, p), ExtensionName(c))]
    ]_vars

\* a collision was reported for a class that matches one point where its
\* name is taken and another where it is free
C1_Witness ==
  /\ last.op = "register_extension_class"
  /\ last.err = ErrCollision
  /\ \E p, q \in PointsMatching(registry, last.cls) :
        /\ NameIn(TableOf(registry, p), ExtensionName(last.cls))
        /\ ~NameIn(TableOf(registry, q), ExtensionName(last.cls))

\* C2: in every reachable state no two registered extension points are
\* related by ancestry (and no point is registered twice).
C2_NoRelatedPoints ==
  \A i, j \in DOMAIN registry :
     i # j => /\ registry[i].point \notin Ancestors(registry[j].point)
              /\ registry[j].point \notin Ancestors(registry[i].point)

\* two points are registered and a registration was refused for ancestry
C2_Witness ==
  /\ Len(registry) >= 2
  /\ last.op = "register_extension_point"
  /\ last.err = ErrHierarchy

\* C3 (as claimed): when the eager construction of the service instance
\* fails inside register_extension_class, the call fails and the class's
\* name is afterwards neither in the service point's table nor in the
\* service cache.
C3_FailedServiceNotRegistered ==
  (/\ last.op = "register_extension_class"
   /\ last.built # <<>>
   /\ ~last.built[1].ok)
  => /\ last.err # NoError
     /\ ~NameIn(TableOf(registry, SERVICE_EXTENSION_POINT),
                ExtensionName(last.cls))
     /\ ExtensionName(last.cls) \notin DOMAIN services

\* C4: after a successful register_extension_class of class C named N, for
\* every registered point P that C matches, lookup(P, N) returns C itself
\* and N appears exactly once in names_for(P).
C4_LookupReturnsRegistered ==
  [][\A c \in Types :
       (/\ Called("register_extension_class")
        /\ last'.cls = c
        /\ last'.err = NoError)
       => \A p \in PointsMatching(registry', c) :
            /\ GetExtensionClass(registry', p, ExtensionName(c)) =
                 [err |-> NoError, cls |-> c]
            /\ Occurrences(GetExtensionNamesFor(registry', p), ExtensionName(c)) = 1
    ]_vars

\* a class matching two registered points was registered
C4_Witness ==
  /\ last.op = "register_extension_class"
  /\ last.err = NoError
  /\ Cardinality(PointsMatching(registry, last.cls)) = 2

\* an unnamed descendant of Extension: something offered as a point
IsPoint(t) == "Extension" \in Ancestors(t) /\ ExtensionName(t) = ""

\* C5: register_extension_point of a point that is a proper subtype or a
\* proper supertype of an already registered point fails with the
\* hierarchy-conflict error, in either order of registration.
C5_HierarchyConflict ==
  [][\A t \in Types :
       (/\ Called("register_extension_point")
        /\ last'.point = t
        /\ IsPoint(t)
        /\ \E p \in RegisteredPoints(registry) :
              p # t /\ (p \in Ancestors(t) \/ t \in Ancestors(p)))
       => last'.err = ErrHierarchy /\ registry' = registry
    ]_vars

\* the supertype was refused after its subtype had been registered
C5_Witness ==
  /\ last.op = "register_extension_point"
  /\ last.point = "TypeA"
  /\ "FooType" \in RegisteredPoints(registry)
  /\ last.err = ErrHierarchy

\* C6: register_extension_class of a named extension class that matches
\* none of the registered points fails with the no-matching-point error,
\* and names_for of every registered point is the same before and after.
C6_NoMatchingPoint ==
  [][\A c \in Types :
       (/\ Called("register_extension_class")
        /\ last'.cls = c
        /\ "Extension" \in Ancestors(c)
        /\ ExtensionName(c) # ""
        /\ PointsMatching(registry, c) = {})
       => /\ last'.err = ErrNoMatch
          /\ RegisteredPoints(registry') = RegisteredPoints(registry)
          /\ \A p \in RegisteredPoints(registry) :
               GetExtensionNamesFor(registry', p) =
                 GetExtensionNamesFor(registry, p)
    ]_vars

\* a class was refused for matching no point while some table was not empty
C6_Witness ==
  /\ last.op = "register_extension_class"
  /\ last.err = ErrNoMatch
  /\ \E p \in RegisteredPoints(registry) : TableOf(registry, p) # <<>>

\* C7: a successful register_extension_class(cls) adds cls under its name
\* to the table of every registered point cls matches and leaves the table
\* of every other point, and the set of points, as they were.
C7_InsertedInEveryMatchingPoint ==
  [][\A c \in Types :
       (/\ Called("register_extension_class")
        /\ last'.cls = c
        /\ last'.err = NoError)
       => /\ Len(registry') = Len(registry)
          /\ \A i \in DOMAIN registry :
               /\ registry'[i].point = registry[i].point
               /\ registry'[i].exts =
                    IF Matches(c, registry[i].point)
                    THEN Append(registry[i].exts,
                                [name |-> ExtensionName(c), cls |-> c])
                    ELSE registry[i].exts
    ]_vars

\* a class was registered while one registered point matched it and
\* another did not
C7_Witness ==
  /\ last.op = "register_extension_class"
  /\ last.err = NoError
  /\ PointsMatching(registry, last.cls) # {}
  /\ PointsMatching(registry, last.cls) # RegisteredPoints(registry)


\* C8: when register_extension_class succeeds for a class matching the
\* service point, exactly one instance of it was constructed during the
\* call, with the manager as the sole constructor argument, and that
\* instance is in the service cache under the class's name when the call
\* returns; a register_extension_class call of a class that does not match
\* the service point constructs nothing.
C8_EagerServiceInstance ==
  [][\A c \in Types :
       (Called("register_extension_class") /\ last'.cls = c)
       => /\ (last'.err = NoError /\ Matches(c, SERVICE_EXTENSION_POINT))
             => /\ last'.built =
                     <<[cls |-> c,
                        call |-> [args |-> <<"self">>, kwargs |-> {}],
                        ok |-> TRUE]>>
                /\ ExtensionName(c) \in DOMAIN services'
                /\ services'[ExtensionName(c)] =
                     [id |-> nextId, cls |-> c,
                      call |-> [args |-> <<"self">>, kwargs |-> {}]]
                /\ nextId' = nextId + 1
                /\ \A n \in DOMAIN services : services[n].id < nextId
          /\ ~Matches(c, SERVICE_EXTENSION_POINT)
             => /\ last'.built = <<>>
                /\ services' = services
                /\ nextId' = nextId
    ]_vars

\* a service class was registered and its instance is cached
C8_Witness ==
  /\ last.op = "register_extension_class"
  /\ last.err = NoError
  /\ Matches(last.cls, SERVICE_EXTENSION_POINT)
  /\ ExtensionName(last.cls) \in DOMAIN services

\* C9: any two get_service(x) calls made once a service class named x is
\* registered (its instance cached) return the identical instance, and any
\* two get_extension(point, y) calls for points other than the service
\* point return two distinct instances.
C9_ServiceSharedExtensionFresh ==
  \A i, j \in DOMAIN got :
     i < j =>
       /\ (/\ got[i].op = "get_service" /\ got[j].op = "get_service"
           /\ got[i].name = got[j].name
           /\ got[i].cached)
          => got[i].id = got[j].id
       /\ (/\ got[i].op = "get_extension" /\ got[j].op = "get_extension"
           /\ got[i].point # SERVICE_EXTENSION_POINT
           /\ got[j].point # SERVICE_EXTENSION_POINT)
          => got[i].id # got[j].id

\* two get_service calls of one registered service name have returned, and
\* another instance has been constructed since the service's own
C9_Witness ==
  /\ Len(got) >= 2
  /\ got[1].op = "get_service" /\ got[2].op = "get_service"
  /\ got[1].name = got[2].name
  /\ got[1].cached
  /\ nextId > got[1].id + 1

\* C10 (as claimed): service instances are constructed only inside
\* register_extension_class: no get_service call and no get_extension call
\* on the service point invokes a constructor.
C10_NoConstructionAtLookup ==
  (/\ last.op \in {"get_service", "get_extension"}
   /\ last.point = SERVICE_EXTENSION_POINT)
  => last.built = <<>>


\* C11: get_extension on the service point for a name that is in the
\* service cache returns the cached instance whatever constructor arguments
\* are passed, and constructs nothing.
C11_CachedServiceIgnoresArgs ==
  [][\A n \in Names :
       (/\ Called("get_extension")
        /\ last'.point = SERVICE_EXTENSION_POINT
        /\ last'.name = n
        /\ n \in DOMAIN services)
       => /\ last'.err = NoError
          /\ last'.inst = services[n]
          /\ last'.built = <<>>
          /\ nextId' = nextId
          /\ services' = services
    ]_vars

\* a cached service was asked for with positional and keyword arguments
C11_Witness ==
  /\ last.op = "get_extension"
  /\ last.point = SERVICE_EXTENSION_POINT
  /\ last.name \in DOMAIN services
  /\ last.call.args # <<>>
  /\ last.call.kwargs # {}
  /\ last.inst = services[last.name]

\* C12 (as claimed): a lookup, or an instantiation, under a registered point
\* of a name that is not registered under it fails with
\* ExtensionNotFoundError and constructs nothing.
C12_MissingNameNotFound ==
  (/\ last.op \in {"get_extension_class", "get_extension"}
   /\ last.point \in RegisteredPoints(registry)
   /\ ~NameIn(TableOf(registry, last.point), last.name))
  => /\ last.err = ErrExtensionNotFound
     /\ last.built = <<>>

\* C13 (as claimed): load_plugin fails with PluginNotLoadedError for every
\* kind of failure of the import of the plugin module.
C13_ImportFailuresUniform ==
  (/\ last.op = "load_plugin"
   /\ ImportModule(FullPlugin(last.plugin)).status # "ok")
  => last.err = ErrPluginNotLoaded


\* the module load_plugin imports for the plugin name
ModuleOf(plugin) ==
  ImportModule(<<"my", "_", "app", ".", "plugins", ".">> \o
               [i \in DOMAIN plugin |-> IF plugin[i] = "-" THEN "_" ELSE plugin[i]])

\* the module was imported and exports the collection of extension classes
WellFormed(m) ==
  /\ m.status = "ok"
  /\ <<"_", "_", "my", "_", "app", "_", "extensions", "_", "_">> \in m.attrs

\* C14: load_plugin of a module that imports but lacks the extensions
\* attribute fails with PluginWithoutExtensionsError and registers nothing:
\* every name table and the service cache are unchanged.
C14_MissingAttributeRegistersNothing ==
  [][\A pl \in PluginNames :
       (/\ Called("load_plugin")
        /\ last'.plugin = pl
        /\ ModuleOf(pl).status = "ok"
        /\ ~WellFormed(ModuleOf(pl)))
       => /\ last'.err = ErrPluginWithoutExtensions
          /\ registry' = registry
          /\ services' = services
          /\ last'.built = <<>>
    ]_vars

\* the load of a module without the attribute was refused while classes
\* were registered
C14_Witness ==
  /\ last.op = "load_plugin"
  /\ last.err = ErrPluginWithoutExtensions
  /\ \E p \in RegisteredPoints(registry) : TableOf(registry, p) # <<>>

\* C15: when load_plugin of a well-formed plugin returns normally, every
\* class of the plugin's collection resolves through lookup under each
\* registered point it matches, and every service class among them has its
\* instance in the service cache.
C15_LoadedClassesResolvable ==
  [][\A pl \in PluginNames :
       (/\ Called("load_plugin")
        /\ last'.plugin = pl
        /\ last'.err = NoError
        /\ WellFormed(ModuleOf(pl)))
       => \A k \in DOMAIN ModuleOf(pl).value :
            LET c == ModuleOf(pl).value[k]
            IN  /\ PointsMatching(registry', c) # {}
                /\ \A p \in PointsMatching(registry', c) :
                     GetExtensionClass(registry', p, ExtensionName(c)) =
                       [err |-> NoError, cls |-> c]
                /\ Matches(c, SERVICE_EXTENSION_POINT)
                   => /\ ExtensionName(c) \in DOMAIN services'
                      /\ services'[ExtensionName(c)].cls = c
    ]_vars

\* a plugin with a service class and a class of another point was loaded
C15_Witness ==
  /\ last.op = "load_plugin"
  /\ last.err = NoError
  /\ Len(last.built) = 1
  /\ \E p \in RegisteredPoints(registry) :
        p # SERVICE_EXTENSION_POINT /\ TableOf(registry, p) # <<>>

\* what direct register_extension_class calls on the classes, in order and
\* up to the first that fails, leave behind
RECURSIVE DirectCalls(_, _)
DirectCalls(exts, st) ==
  IF exts = <<>> \/ st.err # NoError THEN st
  ELSE DirectCalls(Tail(exts),
                   RegisterExtensionClass(st.registry, st.services,
                                          st.nextId, Head(exts)))

\* C16: load_plugin hands the plugin's classes to register_extension_class
\* one by one in collection order; the first registration error stops the
\* load and reaches the caller as the error the direct
\* register_extension_class call raises.
C16_LoadRegistersInOrder ==
  [][\A pl \in PluginNames :
       (/\ Called("load_plugin")
        /\ last'.plugin = pl
        /\ WellFormed(ModuleOf(pl)))
       => LET end == DirectCalls(ModuleOf(pl).value,
                       [err |-> NoError, registry |-> registry,
                        services |-> services, nextId |-> nextId,
                        built |-> <<>>])
          IN  /\ last'.err = end.err
              /\ registry' = end.registry
              /\ services' = end.services
              /\ nextId' = end.nextId
    ]_vars

\* a load stopped at its second class, after registering the first
C16_Witness ==
  /\ last.op = "load_plugin"
  /\ last.err = ErrNoMatch
  /\ last.built # <<>>
  /\ "x" \in DOMAIN services


\* C17: a register_extension_point call that fails, for whatever reason,
\* leaves the registry as it was: the same points, the same table for each,
\* and the same service cache.
C17_FailedPointLeavesRegistry ==
  [][(Called("register_extension_point") /\ last'.err # NoError)
     => /\ registry' = registry
        /\ services' = services
    ]_vars

\* a type that is no extension was refused as a point while two points and
\* a class were registered
C17_Witness ==
  /\ last.op = "register_extension_point"
  /\ last.err = ErrNotExtension
  /\ Len(registry) >= 2
  /\ \E p \in RegisteredPoints(registry) : TableOf(registry, p) # <<>>

\* C18: register_extension_point of a point that is already registered
\* fails with the already-registered error.
C18_DuplicatePoint ==
  [][\A t \in Types :
       (/\ Called("register_extension_point")
        /\ last'.point = t
        /\ t \in RegisteredPoints(registry))
       => last'.err = ErrAlreadyRegistered
    ]_vars

\* a point registered by a call, not by the constructor, was offered again
C18_Witness ==
  /\ last.op = "register_extension_point"
  /\ last.point \in RegisteredPoints(registry)
  /\ last.point # SERVICE_EXTENSION_POINT
  /\ last.err = ErrAlreadyRegistered

\* C19: register_extension_point of a descendant of Extension that carries
\* an __extension_name__ fails with the extension-as-point TypeError, also
\* when no registered point is related to it.
C19_NamedClassIsNoPoint ==
  [][\A t \in Types :
       (/\ Called("register_extension_point")
        /\ last'.point = t
        /\ "Extension" \in Ancestors(t)
        /\ ExtensionName(t) # "")
       => /\ last'.err = ErrExtensionAsPoint
          /\ t \notin RegisteredPoints(registry')
    ]_vars

\* a named class unrelated to every registered point was refused as a point
C19_Witness ==
  /\ last.op = "register_extension_point"
  /\ last.err = ErrExtensionAsPoint
  /\ \A p \in RegisteredPoints(registry) :
        p \notin Ancestors(last.point) /\ last.point \notin Ancestors(p)

\* C20: register_extension_class of a class that does not descend from
\* Extension, or that has no __extension_name__, fails with the
\* invalid-extension TypeError whatever points are registered, and
\* registers nothing.
C20_InvalidExtensionClass ==
  [][\A c \in Types :
       (/\ Called("register_extension_class")
        /\ last'.cls = c
        /\ ("Extension" \notin Ancestors(c) \/ ExtensionName(c) = ""))
       => /\ last'.err =
               IF "Extension" \notin Ancestors(c) THEN ErrNotExtension
               ELSE ErrMissingName
          /\ registry' = registry
          /\ services' = services
          /\ last'.built = <<>>
    ]_vars

\* a class without a name was refused although a registered point matches
\* it
C20_Witness ==
  /\ last.op = "register_extension_class"
  /\ last.err = ErrMissingName
  /\ PointsMatching(registry, last.cls) # {}


\* C21 (as claimed): get_extension_names_for of a point that is not
\* registered fails with the manager's error for an unregistered point, the
\* one lookup raises; the failure of a generator is looked for at the call
\* and at every next() on what the call returned.
C21_UnknownPointFails ==
  (/\ last.op \in {"get_extension_names_for", "next"}
   /\ last.point \notin RegisteredPoints(registry))
  => last.err = ErrInvalidPoint

\* C22: the names a get_extension_names_for(P) generator yields are the
\* names of P's table in the order of registration: a generator that has
\* yielded k names yields the (k+1)-th registered name next, the first
\* next() on every newly returned generator yields the first registered
\* name, and a generator ends normally only after it has yielded every
\* registered name.
C22_NamesInRegistrationOrder ==
  [][(Called("next") /\ gen.point \in RegisteredPoints(registry))
     => LET tab == TableOf(registry, gen.point)
        IN  /\ last'.err = NoError
               => /\ gen.pos < Len(tab)
                  /\ last'.name = tab[gen.pos + 1].name
                  /\ gen'.pos = gen.pos + 1
            /\ (gen.state = "created" /\ tab # <<>>)
               => /\ last'.err = NoError
                  /\ last'.name = tab[1].name
            /\ (gen.state # "done" /\ last'.err = ErrStopIteration)
               => gen.pos = Len(tab)
    ]_vars

\* a generator has yielded the second of two names registered under its
\* point
C22_Witness ==
  /\ last.op = "next"
  /\ last.err = NoError
  /\ gen.pos = 2
  /\ gen.point \in RegisteredPoints(registry)
  /\ Len(TableOf(registry, gen.point)) = 2
  /\ last.name = TableOf(registry, gen.point)[2].name


\* C23: a get_extension(point, name, args, kwargs) that is not answered
\* from the service cache and returns, returns a newly constructed instance
\* of exactly the class lookup(point, name) gives, and the one constructor
\* call made received the caller's positional and keyword arguments and
\* nothing else.
C23_InstantiateWithCallerArgs ==
  [][\A p \in LookupPoints, n \in Names, call \in CallArgs :
       (/\ Called("get_extension")
        /\ last'.point = p /\ last'.name = n /\ last'.call = call
        /\ ~(p = SERVICE_EXTENSION_POINT /\ n \in DOMAIN services)
        /\ last'.err = NoError)
       => LET look == GetExtensionClass(registry, p, n)
          IN  /\ look.err = NoError
              /\ last'.inst = [id |-> nextId, cls |-> look.cls, call |-> call]
              /\ \A m \in DOMAIN services : services[m].id # last'.inst.id
              /\ nextId' = nextId + 1
              /\ last'.built = <<[cls |-> look.cls, call |-> call, ok |-> TRUE]>>
    ]_vars

\* an extension was built from positional and keyword arguments
C23_Witness ==
  /\ last.op = "get_extension"
  /\ last.err = NoError
  /\ last.point # SERVICE_EXTENSION_POINT
  /\ last.call.args # <<>>
  /\ last.call.kwargs # {}
  /\ last.inst.call = last.call
  /\ last.inst.cls = ClassOf(TableOf(registry, last.point), last.name)

\* C24: when the constructor called by get_extension (or by get_service)
\* fails, the caller gets the constructor's own error, and the registry
\* tables and the service cache are as before the call.
C24_CtorFailurePropagates ==
  [][(/\ (Called("get_extension") \/ Called("get_service"))
      /\ last'.built # <<>>
      /\ ~last'.built[1].ok)
     => /\ last'.err = IF CtorAccepts(last'.built[1].cls, last'.built[1].call)
                       THEN ErrCtor ELSE ErrCtorArgs
        /\ registry' = registry
        /\ services' = services
        /\ nextId' = nextId
    ]_vars

\* the __init__ of a registered class raised inside get_extension while
\* another service was cached
C24_Witness ==
  /\ last.op = "get_extension"
  /\ last.err = ErrCtor
  /\ last.built # <<>>
  /\ last.built[1].cls \in Raising
  /\ services # <<>>

\* C25: a valid class whose name is free in every registered point it
\* matches registers successfully although a registered point it does not
\* match holds another class under the same name; afterwards the name
\* resolves to the new class under the points it matches and still to the
\* other class under the other point.
C25_NamesScopedByPoint ==
  [][\A c \in Types :
       (/\ Called("register_extension_class")
        /\ last'.cls = c
        /\ "Extension" \in Ancestors(c)
        /\ ExtensionName(c) # ""
        /\ PointsMatching(registry, c) # {}
        /\ \A p \in PointsMatching(registry, c) :
              ~NameIn(TableOf(registry, p), ExtensionName(c))
        /\ \E q \in RegisteredPoints(registry) \ PointsMatching(registry, c) :
              NameIn(TableOf(registry, q), ExtensionName(c)))
       => /\ last'.err = NoError
          /\ \A p \in PointsMatching(registry, c) :
               GetExtensionClass(registry', p, ExtensionName(c)) =
                 [err |-> NoError, cls |-> c]
          /\ \A q \in RegisteredPoints(registry) \ PointsMatching(registry, c) :
               GetExtensionClass(registry', q, ExtensionName(c)) =
                 GetExtensionClass(registry, q, ExtensionName(c))
    ]_vars

\* one name resolves to two different classes under two registered points
C25_Witness ==
  /\ last.op = "register_extension_class"
  /\ last.err = NoError
  /\ \E p, q \in RegisteredPoints(registry) :
        /\ p # q
        /\ NameIn(TableOf(registry, p), ExtensionName(last.cls))
        /\ NameIn(TableOf(registry, q), ExtensionName(last.cls))
        /\ ClassOf(TableOf(registry, p), ExtensionName(last.cls)) = last.cls
        /\ ClassOf(TableOf(registry, q), ExtensionName(last.cls)) # last.cls

\* the chunks of a name with every hyphen turned into an underscore
Underscored(s) == [i \in DOMAIN s |-> IF s[i] = "-" THEN "_" ELSE s[i]]

\* C26: load_plugin(plugin) of an application named my-app imports the
\* module my_app.plugins.<plugin with its hyphens as underscores> and reads
\* the attribute __my_app_extensions__ of it: the load fails as not loaded
\* exactly when no module of that name can be imported, fails as without
\* extensions exactly when that module lacks that attribute, and otherwise
\* registers the classes of that attribute.
C26_ModulePathAndAttribute ==
  [][\A pl \in PluginNames :
       (Called("load_plugin") /\ last'.plugin = pl)
       => LET m == ImportModule(Underscored(<<"my", "-", "app">>) \o
                                <<".", "plugins", ".">> \o Underscored(pl))
              attr == <<"_", "_">> \o Underscored(<<"my", "-", "app">>) \o
                      <<"_", "extensions", "_", "_">>
          IN  /\ last'.err = ErrPluginNotLoaded <=> m.status = "ImportError"
              /\ last'.err = ErrPluginWithoutExtensions
                 <=> (m.status = "ok" /\ attr \notin m.attrs)
              /\ (m.status = "ok" /\ attr \in m.attrs)
                 => registry' = DirectCalls(m.value,
                                  [err |-> NoError, registry |-> registry,
                                   services |-> services, nextId |-> nextId,
                                   built |-> <<>>]).registry
    ]_vars

\* a plugin with a hyphen in its name was loaded and registered a class
C26_Witness ==
  /\ last.op = "load_plugin"
  /\ last.err = NoError
  /\ \E i \in DOMAIN last.plugin : last.plugin[i] = "-"
  /\ registry # AddPoint(<<>>, SERVICE_EXTENSION_POINT)
  /\ \E p \in RegisteredPoints(registry) : TableOf(registry, p) # <<>>


\* the classes of the commands whose execute was called, in order
ExecutedClasses(run) == [i \in DOMAIN run.executed |-> run.executed[i].cls]

\* C27: CommandManager.execute with exactly one registered command and no
\* positional token executes that command; with several registered
\* commands and, after the options, just the name of a registered command
\* it executes the command registered under that name and no other; with
\* several registered commands and no positional token it executes none.
C27_CommandRouting ==
  [][Called("execute")
     => LET tab == TableOf(registry, COMMAND_EXTENSION_POINT)
            pos == SelectSeq(cli'.argv, LAMBDA tok : tok # "-v")
        IN  /\ (Len(tab) = 1 /\ pos = <<>>)
               => ExecutedClasses(cli') = <<tab[1].cls>>
            /\ (/\ Len(tab) > 1 /\ Len(pos) = 1
                /\ cli'.argv[Len(cli'.argv)] = pos[1]
                /\ \E i \in DOMAIN tab : tab[i].name = pos[1])
               => \E i \in DOMAIN tab :
                     /\ tab[i].name = pos[1]
                     /\ ExecutedClasses(cli') = <<tab[i].cls>>
            /\ (Len(tab) > 1 /\ pos = <<>>)
               => cli'.executed = <<>>
    ]_vars

\* with three commands registered the sub-command given after an option
\* ran the command registered second
C27_Witness ==
  /\ last.op = "execute"
  /\ Len(TableOf(registry, COMMAND_EXTENSION_POINT)) = 3
  /\ cli.argv = <<"-v", "a">>
  /\ TableOf(registry, COMMAND_EXTENSION_POINT)[2].name = "a"
  /\ ExecutedClasses(cli) = <<"CmdA">>

\* C28 (as claimed): the execute of every command that
\* CommandManager.execute runs receives the owning application as its
\* first argument and the parsed arguments as its second.
C28_CommandReceivesApplication ==
  \A i \in DOMAIN cli.executed :
     /\ cli.executed[i].app = "application"
     /\ cli.executed[i].args = cli.parsed


\* the proper prefixes of the key under which d holds a plain value
PlainPrefixes(d, key) ==
  {k \in 1..(Len(key) - 1) :
     /\ SubSeq(key, 1, k) \in DOMAIN d
     /\ d[SubSeq(key, 1, k)].kind = "value"}

\* C29: after set(key, v) on a Namespace in which no proper prefix of the
\* key holds a plain value, get(key) returns v, get of every proper prefix
\* returns a Namespace, and get of the rest of the key on that Namespace
\* returns v.
C29_SetGetRoundTrip ==
  [][\A key \in Keys, v \in Values :
       (/\ nsLast'.op = "set" /\ nsLast'.key = key /\ nsLast'.value = v
        /\ PlainPrefixes(ns, key) = {})
       => /\ nsLast'.err = NoError
          /\ Get(ns', key, FALSE, 0) =
               [err |-> NoError, arg |-> <<>>,
                ret |-> [kind |-> "value", value |-> v, path |-> <<>>]]
          /\ \A k \in 1..(Len(key) - 1) :
               LET pre == Get(ns', SubSeq(key, 1, k), FALSE, 0)
               IN  /\ pre.err = NoError
                   /\ pre.ret.kind = "namespace"
                   /\ GetItem(ns', pre.ret.path, SubSeq(key, k + 1, Len(key))) =
                        [err |-> NoError, arg |-> <<>>,
                         ret |-> [kind |-> "value", value |-> v, path |-> <<>>]]
    ]_vars

\* a key of three components was set where nothing was stored under its
\* first component
C29_Witness ==
  /\ nsLast.op = "set"
  /\ nsLast.err = NoError
  /\ Len(nsLast.key) = 3
  /\ nsLast.key \in DOMAIN ns
  /\ ns[nsLast.key] = [kind |-> "value", value |-> nsLast.value]
  /\ Cardinality(DOMAIN ns) = 3

\* C30: a get (without default) or a set of a key one of whose proper
\* prefixes holds a plain value fails with KeyUsedAsNamespaceError whose
\* first argument is the last component of the shortest such prefix,
\* whatever follows it, and leaves the Namespace as it was.
C30_KeyUsedAsNamespace ==
  [][\A key \in Keys :
       (/\ nsLast'.op \in {"set", "get"} /\ nsLast'.key = key
        /\ PlainPrefixes(ns, key) # {})
       => LET k == CHOOSE i \in PlainPrefixes(ns, key) :
                     \A j \in PlainPrefixes(ns, key) : i <= j
          IN  /\ nsLast'.err = "KeyUsedAsNamespaceError"
              /\ nsLast'.arg = <<key[k]>>
              /\ ns' = ns
    ]_vars

\* a get of a key of three components failed on the plain value stored
\* under its first two
C30_Witness ==
  /\ nsLast.op = "get"
  /\ Len(nsLast.key) = 3
  /\ nsLast.err = "KeyUsedAsNamespaceError"
  /\ nsLast.arg = <<nsLast.key[2]>>
  /\ ns[SubSeq(nsLast.key, 1, 2)].kind = "value"

(***************************************************************************)
(* Permanence of the registry and of the service cache                     *)
(***************************************************************************)
\* C32: registrations are never undone.  Over every step, whatever the
\* operation and whether it succeeds or fails, every registered point stays
\* registered and every (point, name) that resolves to a class keeps
\* resolving to that class.
C32_RegistrationsNeverUndone ==
  [][/\ RegisteredPoints(registry) \subseteq RegisteredPoints(registry')
     /\ registry' # registry
          => \A p \in RegisteredPoints(registry) : \A n \in Names :
               LET found == GetExtensionClass(registry, p, n)
               IN  found.err = NoError
                     => GetExtensionClass(registry', p, n) = found]_vars

\* a registration was refused for a name that another class holds, and the
\* name still resolves to that other class
C32_Witness ==
  /\ last.op = "register_extension_class" /\ last.err = ErrCollision
  /\ \E p \in RegisteredPoints(registry) :
       /\ Matches(last.cls, p)
       /\ GetExtensionClass(registry, p, ExtensionName(last.cls)).err = NoError
       /\ GetExtensionClass(registry, p, ExtensionName(last.cls)).cls # last.cls

\* C33: a class is bound only to the points registered when it was
\* registered.  A point registered afterwards starts with an empty table: no
\* name resolves under it, not even the name of a registered class that is
\* a subclass of the new point.
C33_LaterPointStartsEmpty ==
  [][(Called("register_extension_point") /\ last'.err = NoError)
       => /\ TableOf(registry', last'.point) = <<>>
          /\ \A n \in Names :
               GetExtensionClass(registry', last'.point, n).err = ErrKey]_vars

\* a point was registered while a class that is a subclass of it was
\* already registered under another point
C33_Witness ==
  /\ last.op = "register_extension_point" /\ last.err = NoError
  /\ \E q \in RegisteredPoints(registry) \ {last.point} : \E n \in Names :
       /\ NameIn(TableOf(registry, q), n)
       /\ IsSubclass(ClassOf(TableOf(registry, q), n), last.point)
  /\ TableOf(registry, last.point) = <<>>

\* C34: the service cache only grows.  Over every step every cached name
\* stays cached with the same instance, and a get_service of a cached name
\* returns that instance.
C34_ServiceCachePermanent ==
  [][/\ \A n \in DOMAIN services :
          n \in DOMAIN services' /\ services'[n] = services[n]
     /\ (Called("get_service") /\ last'.name \in DOMAIN services)
          => (last'.err = NoError /\ last'.inst = services[last'.name])]_vars

\* another service class was offered under a cached name and refused; the
\* cache still holds the instance of the first class
C34_Witness ==
  /\ last.op = "register_extension_class" /\ last.err = ErrCollision
  /\ IsSubclass(last.cls, SERVICE_EXTENSION_POINT)
  /\ ExtensionName(last.cls) \in DOMAIN services
  /\ services[ExtensionName(last.cls)].cls # last.cls

\* C35: a successful register_extension_point(P) appends P with an empty
\* table and changes nothing else: the tables of the points registered
\* before and the service cache are as they were.
C35_RegisterPointFrame ==
  [][(Called("register_extension_point") /\ last'.err = NoError)
       => /\ registry' = Append(registry, [point |-> last'.point, exts |-> <<>>])
          /\ last'.point \notin RegisteredPoints(registry)
          /\ services' = services
          /\ nextId' = nextId]_vars

\* a point was registered while the point registered before it had two
\* classes bound and a service was cached
C35_Witness ==
  /\ last.op = "register_extension_point" /\ last.err = NoError
  /\ DOMAIN services # {}
  /\ \E q \in RegisteredPoints(registry) \ {last.point} :
       Len(TableOf(registry, q)) = 2

\* the index of the first class of exts whose registration is refused, 0
\* when none is, registering them in turn from (reg, svc, nid)
RECURSIVE FirstRefused(_, _, _, _, _)
FirstRefused(exts, reg, svc, nid, i) ==
  IF exts = <<>> THEN 0
  ELSE LET r == RegisterExtensionClass(reg, svc, nid, Head(exts))
       IN  IF r.err # NoError THEN i
           ELSE FirstRefused(Tail(exts), r.registry, r.services, r.nextId, i + 1)

\* C36: load_plugin is not rolled back.  When the k-th class of the
\* plugin's collection is refused, the load fails and afterwards each of
\* the first k-1 classes resolves under every registered point it is a
\* subclass of, the services among them are cached, and no class after the
\* k-th has been bound anywhere it was not bound before.
C36_LoadNotRolledBack ==
  [][(Called("load_plugin") /\ WellFormed(ModuleOf(last'.plugin)))
       => LET value == ModuleOf(last'.plugin).value
              k == FirstRefused(value, registry, services, nextId, 1)
          IN  k # 0 =>
                /\ last'.err # NoError
                /\ \A j \in 1..(k - 1) :
                     /\ \A p \in RegisteredPoints(registry') :
                          Matches(value[j], p)
                            => GetExtensionClass(registry', p,
                                 ExtensionName(value[j])).cls = value[j]
                     /\ IsSubclass(value[j], SERVICE_EXTENSION_POINT)
                          => /\ ExtensionName(value[j]) \in DOMAIN services'
                             /\ services'[ExtensionName(value[j])].cls = value[j]
                /\ \A j \in (k + 1)..Len(value) :
                     value[j] \notin {value[i] : i \in 1..k}
                       => \A p \in RegisteredPoints(registry') :
                            GetExtensionClass(registry', p,
                                ExtensionName(value[j])).cls = value[j]
                              => GetExtensionClass(registry, p,
                                   ExtensionName(value[j])).cls = value[j]]_vars

\* a load stopped at its second class: the first class is bound by it and
\* the third is bound nowhere
C36_Witness ==
  /\ last.op = "load_plugin" /\ last.plugin = <<"meh">>
  /\ last.err = ErrCtor
  /\ "TypeA" \in RegisteredPoints(registry)
  /\ GetExtensionClass(registry, "TypeA", "x").cls = "ExtA"
  /\ \A p \in RegisteredPoints(registry) :
       GetExtensionClass(registry, p, "x").cls # "FooSvc"

\* C37: every name in the service cache is bound in the table of the
\* service point, and the cached instance is an instance of the class bound
\* there.
C37_CacheWithinServiceTable ==
  \A n \in DOMAIN services :
    /\ SERVICE_EXTENSION_POINT \in RegisteredPoints(registry)
    /\ NameIn(TableOf(registry, SERVICE_EXTENSION_POINT), n)
    /\ services[n].cls = ClassOf(TableOf(registry, SERVICE_EXTENSION_POINT), n)

\* a service is cached while the table of the service point binds more
\* names than the cache holds
C37_Witness ==
  /\ DOMAIN services # {}
  /\ Len(TableOf(registry, SERVICE_EXTENSION_POINT)) > Cardinality(DOMAIN services)

(***************************************************************************)
(* Signaler                                                                *)
(***************************************************************************)
\* C40: get_signal, connect, disconnect or send on a name that was never
\* registered fails with UnknowSignalError and leaves the registered
\* signals as they were.
C40_UnknownSignalFails ==
  [][(/\ sigLast'.op \in {"get_signal", "connect", "disconnect", "send"}
      /\ sigLast'.name \notin Registered(signals))
       => /\ sigLast'.err = "UnknowSignalError"
          /\ signals' = signals]_vars

(***************************************************************************)
(* Store                                                                   *)
(***************************************************************************)
\* what the Store holds under key
StoredAt(d, key) ==
  IF key \in DOMAIN d THEN d[key] ELSE [kind |-> "absent", value |-> 0]

\* C31: Store.set passes the value through the validators in the order
\* they were added and stores what the last one returns; when a validator
\* raises ValidationError the set fails with ValidationError and what was
\* stored under the key is unchanged.
C31_ValidatedSet ==
  [][storeLast'.op = "set"
       => LET key == storeLast'.key
              p == ProcessValue(validators, key, Plain(storeLast'.value))
          IN  /\ storeLast'.err = NoError
                   => (p.err = NoError /\ StoredAt(store', key) = p.entry)
              /\ p.err = ErrValidation => storeLast'.err = ErrValidation
              /\ storeLast'.err = ErrValidation
                   => StoredAt(store', key) = StoredAt(store, key)]_vars

(***************************************************************************)
(* CronManager                                                             *)
(***************************************************************************)
\* the step just taken was the manager's call op (a registration with the
\* application rewrites last and leaves cronLast alone)
CronCalled(op) == cronLast'.op = op /\ last' = last

\* C38: CronManager.execute(task, force) calls the task's execute if and
\* only if force is true or the time since the checkpoint's last-execution
\* (0 when the checkpoint holds no value) is at least the task's interval.
\* When the task ran and returned, save_checkpoint is called exactly once,
\* with last-execution the time at that moment; when the task was skipped
\* or raised, save_checkpoint is not called.
C38_ExecuteWhenDue ==
  [][CronCalled("execute")
       => LET c == cronLast'.task
              name == ExtensionName(c)
              since == IF name \in DOMAIN checkpoints /\ checkpoints[name] # None
                       THEN checkpoints[name] ELSE 0
              due == cronLast'.force \/ clock - since >= INTERVAL(c)
              returned == due /\ cronLast'.err = NoError
          IN  /\ due => cronLast'.ran = <<c>>
              /\ ~due => (cronLast'.ran = <<>> /\ cronLast'.err = NoError)
              /\ returned
                   => /\ cronLast'.saved
                           = <<[task |-> c, last_execution |-> clock']>>
                      /\ checkpoints' = (name :> clock') @@ checkpoints
              /\ ~returned
                   => (cronLast'.saved = <<>> /\ checkpoints' = checkpoints)]_vars

\* a task was due without force, took time to run, and its checkpoint now
\* holds the time it ended at
C38_Witness ==
  /\ cronLast.op = "execute" /\ ~cronLast.force
  /\ cronLast.err = NoError
  /\ cronLast.ran = <<cronLast.task>>
  /\ Duration(cronLast.task) > 0
  /\ cronLast.saved = <<[task |-> cronLast.task, last_execution |-> clock]>>
  /\ checkpoints[ExtensionName(cronLast.task)] = clock

\* the task classes registered, in the order of their registration
RegisteredTasks(reg) ==
  [i \in DOMAIN TableOf(reg, TASK_EXTENSION_POINT) |->
     TableOf(reg, TASK_EXTENSION_POINT)[i].cls]

\* C39: when execute_all returns, its list holds one entry for each
\* registered task that can be instantiated, in registration order; the
\* entry of a task that raised an ExtensionError holds that error, and the
\* tasks after it were still visited: with force every instantiable task
\* was executed.
C39_ExecuteAllCollects ==
  [][(CronCalled("execute_all") /\ cronLast'.err = NoError)
       => LET inst == SelectSeq(RegisteredTasks(registry),
                                LAMBDA c : TaskInit(c) = NoError)
              ret == cronLast'.ret
              ran == cronLast'.ran
          IN  /\ Len(ret) = Len(inst)
              /\ \A i \in DOMAIN ret :
                   /\ ret[i].task = inst[i]
                   /\ ret[i].result = ErrExtension
                        <=> (/\ \E j \in DOMAIN ran : ran[j] = inst[i]
                             /\ TaskExecute(inst[i]) = ErrExtension)
              /\ cronLast'.force => ran = inst]_vars

\* execute_all returned two entries: the first holds the ExtensionError of
\* its task, the task after it was executed, and a registered task that
\* cannot be instantiated has no entry
C39_Witness ==
  /\ cronLast.op = "execute_all" /\ cronLast.err = NoError
  /\ Len(cronLast.ret) = 2
  /\ cronLast.ret[1].result = ErrExtension
  /\ cronLast.ret[2].result = "None"
  /\ cronLast.ran = <<cronLast.ret[1].task, cronLast.ret[2].task>>
  /\ Len(RegisteredTasks(registry)) = 3

====
